---- MODULE Spec2Model ----
(***************************************************************************)
(* Workflow engine of auto-repo-agents: the parallel task executor that    *)
(* WorkflowCoordinator.generate_all_docs drives for Phase 1 and Phase 2,   *)
(* the dependency resolver of the document catalog, the quality gate of    *)
(* the Phase 1 documents, generate_all_docs itself, the WebSocketManager,   *)
(* the format converter, the Celery generation task and GeminiProvider.    *)
(***************************************************************************)
EXTENDS Integers, Sequences, FiniteSets, TLC

(***************************************************************************)
(* Bounds of the model.                                                    *)
(***************************************************************************)
\* largest number of tasks a caller adds through add_task
MaxTasks == 4
\* tasks a phase schedules beyond the worker cap of its executor
Surplus == 1
\* how many of a phase's first tasks may have work that raises
MaxFailing == 1
\* number of document ids of a catalog
MaxDocs == 3
\* longest dependency list of a document definition
MaxDeps == 1
\* longest list of requested ids
MaxSelected == 2
\* longest dependency list written in the catalog file
MaxRawDeps == 2
\* highest point of the quality score scale (scores and thresholds are 0..MaxScore)
MaxScore == 3
\* largest max_connections_per_project of a WebSocketManager
MaxConnections == 1
\* largest max_queue_size of a WebSocketManager
MaxQueueSize == 2
\* number of send_progress calls of a run
MaxSends == 3
\* largest number of documents handed to convert_all_documents
MaxDocuments == 2
\* longest list of formats handed to convert_all_documents
MaxFormats == 2
\* largest max_retries handed to GeminiProvider.generate
MaxGeminiRetries == 3

(***************************************************************************)
(* Program constants.                                                      *)
(***************************************************************************)
\* AsyncParallelExecutor(max_workers=4) for Phase 1
Phase1MaxWorkers == 4
\* AsyncParallelExecutor(max_workers=8) for Phase 2
Phase2MaxWorkers == 8

Pending == "Pending"
Running == "Running"
Complete == "Complete"
Failed == "Failed"
Blocked == "Blocked"
TaskStatus == {Pending, Running, Complete, Failed, Blocked}

None == "None"

VARIABLES
    executor_phase, \* 0: a stand-alone executor, 1 / 2: the coordinator's phase executor
    max_workers,    \* the concurrency cap the executor was constructed with
    tasks,          \* executor.tasks: sequence of TaskExecution records, index = task id
    pc,             \* "created", "building", "executing", "returned" or "raised"
    returned,       \* the mapping execute() returned (<<>> before it returns)
    definitions,    \* load_document_definitions(): document id -> list of dependency ids
    selected_ids,   \* the ids passed to resolve_dependencies
    resolution,     \* what resolve_dependencies did: an order, or the error it raised
    raw_documents,  \* the "documents" of the catalog file: id -> dependencies as written
    first_run,      \* what resolve_dependencies did in the previous process
    gate_pc,        \* position in _run_agent_with_quality_loop
    quality_threshold, \* its quality_threshold argument
    collaborators,  \* how each collaborator of the quality loop behaves in this run
    score,          \* its local variable score
    feedback_report, \* its local variable feedback_report
    calls,          \* how often the loop called feedback generator and improver
    output_file,    \* the content of the document's output file
    gate_result,    \* what the loop returned: (path, content), or "raise"
    agent_type,     \* its agent_type argument, by the document the agent writes
    context,        \* context_manager's stored agent output for that document
    is_async,       \* whether the call is of _async_run_agent_with_quality_loop
    generate_kwargs, \* the keys of its generate_kwargs argument
    call_trace,     \* the collaborator calls the loop has made, in order
    twin,           \* how the other loop ended when called with the same arguments
    run_pc,         \* position in generate_all_docs
    save_to_context, \* whether RequirementsAnalyst._save_to_context works in this run
    results,        \* the results dictionary generate_all_docs returns
    phase1_deps_content, \* its local dictionary of Phase 1 contents
    final_docs,     \* its local final_docs: the documents handed to Phase 3
    packaging,      \* what each Phase 3 step did: "not_run", "ok" or "raise"
    deps_content,   \* the local deps_content of each started task of the phase
    sync_executor,  \* the tasks of the sync fallback executor after its run
    max_connections_per_project, \* WebSocketManager: the connection limit
    max_queue_size, \* WebSocketManager: the limit of a project's message queue
    active_connections, \* project id -> the set of registered websockets
    message_queue,  \* project id -> the list of undelivered payloads
    connecting,     \* the connect() calls suspended at an await
    sending,        \* the send_progress() calls suspended at an await
    sent,           \* the number of send_progress() calls made so far
    ws_outcome,     \* how the latest finished connect or send_progress ended
    documents,      \* convert_all_documents: its argument documents, name -> markdown
    formats,        \* its argument formats
    converter_context, \* whether it is given a context manager, and how the save ends
    conversions,    \* what each call of convert did, by document and place in formats
    format_results, \* the dictionary it returned
    convert_pc,     \* "idle", "called", "returned" or "raised"
    request_retries, \* generate_documents_task: self.request.retries
    task_pc,        \* "idle", "queued", "handling", "succeeded", "retry_scheduled", "failed"
    exc,            \* the exception its try block raised in this attempt
    task_raised,    \* what the attempt raised to the worker
    countdown,      \* the countdown of the retry it scheduled
    notifications,  \* the statuses it sent in this attempt
    project_status, \* the project status the context manager holds
    run_result,     \* what the coordinator's run returned to it
    max_retries,    \* GeminiProvider.generate: its argument max_retries
    initial_retry_delay, \* its argument initial_retry_delay, in tenths of a second
    attempt,        \* its loop variable: the number of API calls made so far
    retry_delay,    \* its local retry_delay, in tenths of a second
    last_exception, \* its local last_exception
    api_calls,      \* what each call of generate_content did, in order
    sleeps,         \* the time.sleep calls it made: retry_delay and wait_time of each
    gemini_pc,      \* "idle", "loop", "returned" or "raised"
    gemini_result   \* the text it returned or the error it raised

vars == <<executor_phase, max_workers, tasks, pc, returned,
          definitions, selected_ids, resolution, raw_documents, first_run,
          gate_pc, quality_threshold, collaborators, score, feedback_report,
          calls, output_file, gate_result, agent_type, context,
          is_async, generate_kwargs, call_trace, twin,
          run_pc, save_to_context, results, phase1_deps_content, final_docs,
          packaging, deps_content, sync_executor,
          max_connections_per_project, max_queue_size, active_connections,
          message_queue, connecting, sending, sent, ws_outcome,
          documents, formats, converter_context, conversions, format_results,
          convert_pc,
          request_retries, task_pc, exc, task_raised, countdown, notifications,
          project_status, run_result,
          max_retries, initial_retry_delay, attempt, retry_delay,
          last_exception, api_calls, sleeps, gemini_pc, gemini_result>>
geminiVars == <<max_retries, initial_retry_delay, attempt, retry_delay,
                last_exception, api_calls, sleeps, gemini_pc, gemini_result>>
taskVars == <<request_retries, task_pc, exc, task_raised, countdown,
              notifications, project_status, run_result>>
convertVars == <<documents, formats, converter_context, conversions,
                 format_results, convert_pc>>
toolVars == <<convertVars, taskVars, geminiVars>>
wsVars == <<max_connections_per_project, max_queue_size, active_connections,
            message_queue, connecting, sending, sent, ws_outcome>>
runVars == <<run_pc, save_to_context, results, phase1_deps_content, final_docs,
             packaging, deps_content, sync_executor>>
gateVars == <<gate_pc, quality_threshold, collaborators, score, feedback_report,
              calls, output_file, gate_result, agent_type, context,
              is_async, generate_kwargs, call_trace, twin>>
executorVars == <<executor_phase, max_workers, tasks, pc, returned>>
catalogVars == <<definitions, selected_ids, resolution, raw_documents, first_run>>

TaskIds == 1..Len(tasks)

(***************************************************************************)
(* Parallel task executor (spec section 4.2).                              *)
(***************************************************************************)

\* the record add_task registers for a task: Pending, no result, no error
NewTask(deps, work) ==
    [dependencies |-> deps, work |-> work, status |-> Pending,
     result |-> None, error |-> None, started |-> FALSE]

\* ids of the tasks in the given status
InStatus(ts, s) == {t \in 1..Len(ts) : ts[t].status = s}

\* every task that depends, directly or transitively, on a task of S
RECURSIVE Dependents(_, _)
Dependents(ts, S) ==
    LET more == {u \in 1..Len(ts) : ts[u].dependencies \cap S # {}} \ S
    IN  IF more = {} THEN S ELSE Dependents(ts, S \cup more)

\* the tasks that become Blocked when task t fails
ToBlockMissTransitive(ts, t) ==
    {u \in InStatus(ts, Pending) : t \in ts[u].dependencies}
ToBlockAbortPending(ts, t) == InStatus(ts, Pending)
ToBlock(ts, t) == (Dependents(ts, {t}) \ {t}) \cap InStatus(ts, Pending)

\* a Pending task is held until all of its dependencies are Complete
IsReadyWhenDepsStarted(ts, t) ==
    /\ ts[t].status = Pending
    /\ \A d \in ts[t].dependencies : ts[d].status # Pending
IsReady(ts, t) ==
    /\ ts[t].status = Pending
    /\ \A d \in ts[t].dependencies : ts[d].status = Complete

\* the scheduling loop starts at most max_concurrency - running tasks
HasCapacity(ts, cap) == Cardinality(InStatus(ts, Running)) < cap

\* the loop repeats until no task is Pending or Running
AllDoneNoneRunning(ts) == InStatus(ts, Running) = {}
AllDone(ts) == InStatus(ts, Pending) \cup InStatus(ts, Running) = {}

\* the status a task's work leaves it in
OutcomeStatus(work) == IF work = "ok" THEN Complete ELSE Failed

\* an exception raised by work is caught at the task boundary
AfterWorkPropagates(work) == IF work = "ok" THEN "executing" ELSE "raised"
AfterWork(work) == "executing"

\* what a finished task records: the value its work returned, or the
\* exception its work raised
TaskResultOfAnyWork(work) == "Artifact"
TaskResult(work) == IF work = "ok" THEN "Artifact" ELSE None
TaskError(work) == IF work = "ok" THEN None ELSE "GenerationFailed"

\* add_task(id, work, dependencies): an unknown dependency id is a
\* configuration error and registers nothing
AddTask(deps, work) ==
    /\ pc = "building"
    /\ executor_phase = 0
    /\ Len(tasks) < MaxTasks
    /\ deps \subseteq TaskIds
    /\ tasks' = Append(tasks, NewTask(deps, work))
    /\ UNCHANGED <<executor_phase, max_workers, pc, returned, catalogVars, gateVars, runVars,
                   wsVars, toolVars>>

\* execute(): enter the scheduling loop
Execute ==
    /\ pc = "building"
    /\ pc' = "executing"
    /\ UNCHANGED <<executor_phase, max_workers, tasks, returned, catalogVars, gateVars, runVars,
                   wsVars, toolVars>>

\* one start of the scheduling loop: a ready task enters Running
Schedule(t) ==
    /\ pc = "executing"
    /\ IsReady(tasks, t)
    /\ HasCapacity(tasks, max_workers)
    /\ tasks' = [tasks EXCEPT ![t].status = Running, ![t].started = TRUE]
    /\ UNCHANGED <<executor_phase, max_workers, pc, returned>>

\* the start of a task whose work does not touch the coordinator's state
StartTask(t) ==
    /\ Schedule(t)
    /\ UNCHANGED <<catalogVars, gateVars, runVars, wsVars, toolVars>>

\* the work of a Running task returns or raises
FinishTask(t) ==
    /\ pc = "executing"
    /\ tasks[t].status = Running
    /\ LET work == tasks[t].work
           blocked == IF OutcomeStatus(work) = Failed THEN ToBlock(tasks, t) ELSE {}
       IN  /\ tasks' = [u \in TaskIds |->
                  IF u = t
                  THEN [tasks[u] EXCEPT
                          !.status = OutcomeStatus(work),
                          !.result = TaskResult(work),
                          !.error = TaskError(work)]
                  ELSE IF u \in blocked
                       THEN [tasks[u] EXCEPT !.status = Blocked]
                       ELSE tasks[u]]
           /\ pc' = AfterWork(work)
    /\ UNCHANGED <<executor_phase, max_workers, returned, catalogVars, gateVars, runVars,
                   wsVars, toolVars>>

\* the mapping execute() returns: one TaskExecution per added task
ReturnedMappingCompletedOnly(ts) ==
    [t \in InStatus(ts, Complete) |->
        [status |-> ts[t].status, result |-> ts[t].result, error |-> ts[t].error]]
ReturnedMapping(ts) ==
    [t \in 1..Len(ts) |->
        [status |-> ts[t].status, result |-> ts[t].result, error |-> ts[t].error]]

\* execute() returns once the scheduling loop has nothing left to run
Return ==
    /\ pc = "executing"
    /\ AllDone(tasks)
    /\ pc' = "returned"
    /\ returned' = ReturnedMapping(tasks)
    /\ UNCHANGED <<executor_phase, max_workers, tasks, catalogVars, gateVars, runVars,
                   wsVars, toolVars>>

(***************************************************************************)
(* The coordinator's use of the executor (generate_all_docs).              *)
(***************************************************************************)

\* the cap the coordinator constructs the phase's executor with
PhaseMaxWorkersSame(phase) == Phase2MaxWorkers
PhaseMaxWorkers(phase) == IF phase = 1 THEN Phase1MaxWorkers ELSE Phase2MaxWorkers

\* a phase's task list and dependency map: flat (independent tasks) or
\* rooted (every task depends on the first one)
PhaseTasks(n, shape, failing) ==
    [t \in 1..n |->
        NewTask(IF shape = "rooted" /\ t > 1 THEN {1} ELSE {},
                IF t \in failing THEN "raise" ELSE "ok")]

\* for task in phase_tasks: executor.add_task(task_id, coro, dependencies)
AddPhaseTasks(shape, failing) ==
    /\ pc = "created"
    /\ executor_phase \in {1, 2}
    /\ tasks' = PhaseTasks(max_workers + Surplus, shape, failing)
    /\ pc' = "building"
    /\ UNCHANGED <<executor_phase, max_workers, returned, catalogVars, gateVars, runVars,
                   wsVars, toolVars>>

(***************************************************************************)
(* Dependency resolver of the document catalog (document_catalog.py).      *)
(***************************************************************************)

DocIds == 1..MaxDocs

\* lists over S of length at most n
SeqsUpTo(S, n) == UNION {[1..k -> S] : k \in 0..n}

\* lists over S without repetition, of length at most n
DistinctSeqs(S, n) ==
    {q \in SeqsUpTo(S, n) : \A i, j \in 1..Len(q) : i < j => q[i] # q[j]}

\* dict.fromkeys(selected_ids): first occurrences, in order
RECURSIVE Dedup(_)
Dedup(ids) ==
    IF ids = <<>> THEN <<>>
    ELSE LET front == Dedup(SubSeq(ids, 1, Len(ids) - 1))
             last == ids[Len(ids)]
         IN  IF \E i \in 1..Len(front) : front[i] = last
             THEN front ELSE Append(front, last)

\* order, visiting, visited of one call, and the ValueError it has raised
NewResolve ==
    [order |-> <<>>, visiting |-> {}, visited |-> {}, error |-> None, named |-> 0]

\* raise ValueError("Dependency cycle detected involving doc_id")
OnVisitingSkip(st, doc_id) == st
OnVisiting(st, doc_id) == [st EXCEPT !.error = "cycle", !.named = doc_id]

\* raise ValueError("Unknown document id doc_id")
OnUnknownSkip(st, doc_id) == st
OnUnknown(st, doc_id) == [st EXCEPT !.error = "unknown", !.named = doc_id]

\* visiting.add(doc_id)
Enter(st, doc_id) == [st EXCEPT !.visiting = @ \cup {doc_id}]

\* visiting.remove(doc_id); visited.add(doc_id); order.append(doc_id)
LeavePrepend(st, doc_id) ==
    [st EXCEPT !.visiting = @ \ {doc_id}, !.visited = @ \cup {doc_id},
               !.order = <<doc_id>> \o @]
Leave(st, doc_id) ==
    [st EXCEPT !.visiting = @ \ {doc_id}, !.visited = @ \cup {doc_id},
               !.order = Append(@, doc_id)]

RECURSIVE visit(_, _, _), visit_each(_, _, _, _)
\* visit(doc_id) of resolve_dependencies; a raised error ends the traversal
visit(defs, st, doc_id) ==
    IF st.error # None THEN st
    ELSE IF doc_id \in st.visited THEN st
    ELSE IF doc_id \in st.visiting THEN OnVisiting(st, doc_id)
    ELSE IF doc_id \notin DOMAIN defs THEN OnUnknown(st, doc_id)
    ELSE LET inner == visit_each(defs, Enter(st, doc_id), defs[doc_id], 1)
         IN  IF inner.error # None THEN inner ELSE Leave(inner, doc_id)

\* for dep_id in ids: visit(dep_id)
visit_each(defs, st, ids, i) ==
    IF i > Len(ids) \/ st.error # None THEN st
    ELSE visit_each(defs, visit(defs, st, ids[i]), ids, i + 1)

\* resolve_dependencies(selected_ids): the order, or the error raised
resolve_dependencies(defs, ids) ==
    LET final == visit_each(defs, NewResolve, Dedup(ids), 1)
    IN  IF final.error = None
        THEN [outcome |-> "order", order |-> final.order, named |-> 0]
        ELSE [outcome |-> final.error, order |-> <<>>, named |-> final.named]

NotResolved == [outcome |-> "none", order |-> <<>>, named |-> 0]

\* a caller requests the ids and gets the order or the error
Resolve(ids) ==
    /\ resolution = NotResolved
    /\ selected_ids' = ids
    /\ resolution' = resolve_dependencies(definitions, ids)
    /\ UNCHANGED <<definitions, raw_documents, first_run, executorVars, gateVars, runVars,
                   wsVars, toolVars>>

\* list({dep for dep in raw["dependencies"] if dep}): the distinct
\* dependencies in the iteration order of a set of strings, which the hash
\* seed of the process decides
SetOrders(deps) ==
    {q \in DistinctSeqs({deps[i] : i \in 1..Len(deps)}, Len(deps)) :
        {q[i] : i \in 1..Len(q)} = {deps[i] : i \in 1..Len(deps)}}

\* load_document_definitions(): the definitions a process can load
load_document_definitions(raw) ==
    {defs \in [DOMAIN raw -> DistinctSeqs(DocIds, MaxRawDeps)] :
        \A id \in DOMAIN raw : defs[id] \in SetOrders(raw[id])}

\* a later process (an empty lru_cache) loads the same catalog file and
\* resolves the same request
ResolveInNewProcess ==
    /\ resolution # NotResolved
    /\ first_run = NotResolved
    /\ first_run' = resolution
    /\ \E defs \in load_document_definitions(raw_documents) :
          /\ definitions' = defs
          /\ resolution' = resolve_dependencies(defs, selected_ids)
    /\ UNCHANGED <<selected_ids, raw_documents, executorVars, gateVars, runVars,
                   wsVars, toolVars>>

(***************************************************************************)
(* The quality gate: WorkflowCoordinator._run_agent_with_quality_loop and  *)
(* its async twin, which runs the same steps in the same order.            *)
(***************************************************************************)

Scores == 0..MaxScore

\* how the collaborators of one run of the loop behave: the agent's
\* generate_and_save, the quality checker (it raises, or its result holds
\* overall_score), the quality reviewer's feedback generator, the improver's LLM
\* call, write_file, and context_manager.save_agent_output; generate_and_save
\* is the agent's own generation and file write
Collaborators ==
    [generate_and_save : {"ok", "raise"},
     save_agent_output : {"ok", "raise"},
     check_quality     : {"ok", "raise"},
     overall_score     : Scores,
     generate          : {"ok", "raise"},
     llm               : {"ok", "raise"},
     write_file        : {"ok", "raise"}]

\* the parameters DocumentImproverAgent.improve_document declares
ImproverParameters ==
    {"original_document", "document_type", "quality_feedback", "focus_areas"}

\* the keyword arguments the loop passes to improve_document
ImproveKeywords ==
    {"original_document", "document_type", "quality_feedback",
     "quality_score", "quality_details"}

\* the call improve_document(**keywords): a keyword that is no parameter
\* raises TypeError before the body runs; the body returns the LLM's
\* improved document or re-raises the LLM's error
improve_document(keywords, llm) ==
    IF ~(keywords \subseteq ImproverParameters) THEN "TypeError"
    ELSE IF llm = "raise" THEN "raise"
    ELSE "V2"

V1 == [path |-> "v1_file_path", content |-> "V1"]
V2 == [path |-> "v2_file_path", content |-> "V2"]

NoCalls == [generate |-> 0, improve_document |-> 0, write_file |-> 0]

\* if score >= quality_threshold
MeetsThresholdStrictly(s, threshold) == s > threshold
MeetsThreshold(s, threshold) == s >= threshold

\* the Phase 1 agents whose generate_and_save is called through the loop
GatedAgents == {"requirements", "user_stories", "database_schema", "project_charter"}

\* the keys the loops look for in generate_kwargs
KwargKeys == {"output_filename", "project_id", "context_manager"}

\* the keyword arguments of the call of generate_and_save: the sync loop
\* adds output_filename, project_id and context_manager when generate_kwargs
\* lacks them, the async loop passes generate_kwargs as it is
call_kwargs_without_context(async, kwargs) == IF async THEN kwargs \ {"context_manager"} ELSE kwargs \cup KwargKeys
call_kwargs(async, kwargs) == IF async THEN kwargs ELSE kwargs \cup KwargKeys

\* if project_id and context_manager: what the agent's save of its output
\* does, "skipped" when the agent was not given both
AgentSave(kwargs, save_agent_output) ==
    IF {"project_id", "context_manager"} \subseteq kwargs
    THEN save_agent_output
    ELSE "skipped"

\* a collaborator call, with the keys of its keyword arguments when the
\* loop chooses them
Call(fn, kwargs) == [fn |-> fn, kwargs |-> kwargs]

\* agent.generate_and_save(**kwargs): generate, write the file, save the
\* output to the context, return the path. RequirementsAnalyst saves through
\* _save_to_context, which logs and swallows a failure; the other agents
\* save inside the try block that logs and re-raises
generate_and_save(agent, generated, saved) ==
    IF generated = "raise"
    THEN [outcome |-> "raise", file |-> None, context |-> None]
    ELSE IF saved = "ok"
    THEN [outcome |-> "ok", file |-> V1.content, context |-> V1.content]
    ELSE IF saved = "skipped"
    THEN [outcome |-> "ok", file |-> V1.content, context |-> None]
    ELSE IF agent = "requirements"
    THEN [outcome |-> "ok", file |-> V1.content, context |-> None]
    ELSE [outcome |-> "raise", file |-> V1.content, context |-> None]

\* 1. GENERATE V1: a failure is logged and re-raised
GenerateV1 ==
    /\ gate_pc = "generate"
    /\ LET kwargs == call_kwargs(is_async, generate_kwargs)
           v1 == generate_and_save(agent_type, collaborators.generate_and_save,
                                   AgentSave(kwargs, collaborators.save_agent_output))
       IN  /\ output_file' = v1.file
           /\ call_trace' = Append(call_trace, Call("generate_and_save", kwargs))
           /\ context' = v1.context
           /\ IF v1.outcome = "raise"
              THEN gate_pc' = "raised" /\ gate_result' = "raise"
              ELSE gate_pc' = "check" /\ UNCHANGED gate_result
    /\ UNCHANGED <<quality_threshold, collaborators, score, feedback_report,
                   calls, agent_type, is_async, generate_kwargs, twin,
                   executorVars, catalogVars, runVars, wsVars, toolVars>>

\* 2. CHECK V1 QUALITY: a checker that raises leaves score = 0
CheckV1Quality ==
    /\ gate_pc = "check"
    /\ score' = IF collaborators.check_quality = "raise"
                THEN 0
                ELSE collaborators.overall_score
    /\ gate_pc' = "decide"
    /\ call_trace' = Append(call_trace, Call("check_quality", {}))
    /\ UNCHANGED <<quality_threshold, collaborators, feedback_report, calls,
                   output_file, gate_result, agent_type, context,
                   is_async, generate_kwargs, twin,
                   executorVars, catalogVars, runVars, wsVars, toolVars>>

\* 3. DECIDE: return V1, or go on to the improvement
Decide ==
    /\ gate_pc = "decide"
    /\ IF MeetsThreshold(score, quality_threshold)
       THEN /\ gate_pc' = "returned"
            /\ gate_result' = V1
       ELSE /\ gate_pc' = "feedback"
            /\ UNCHANGED gate_result
    /\ UNCHANGED <<quality_threshold, collaborators, score, feedback_report,
                   calls, output_file, agent_type, context,
                   is_async, generate_kwargs, call_trace, twin,
                   executorVars, catalogVars, runVars, wsVars, toolVars>>

\* feedback_report after the try block of step 3a: the quality reviewer's
\* report, or the simplified feedback text when the reviewer raised
FeedbackReportOfReviewer(generated) == IF generated = "raise" THEN None ELSE "review"
FeedbackReport(generated) == IF generated = "raise" THEN "simplified" ELSE "review"

\* 3a. the quality reviewer's feedback, or the simplified text when it raises
GetFeedback ==
    /\ gate_pc = "feedback"
    /\ calls' = [calls EXCEPT !.generate = @ + 1]
    /\ feedback_report' = FeedbackReport(collaborators.generate)
    /\ call_trace' = Append(call_trace, Call("generate", {}))
    /\ gate_pc' = "improve"
    /\ UNCHANGED <<quality_threshold, collaborators, score, output_file,
                   gate_result, agent_type, context,
                   is_async, generate_kwargs, twin,
                   executorVars, catalogVars, runVars, wsVars, toolVars>>

\* 3b. the whole try block: improve_document, write_file, the save of the
\* improved document to the context (a failure of the save is logged only),
\* return V2; any other exception in the block is logged and V1 is returned
ImproveV1 ==
    /\ gate_pc = "improve"
    /\ LET improved_doc == improve_document(ImproveKeywords, collaborators.llm)
           written == improved_doc = V2.content /\ collaborators.write_file = "ok"
       IN  /\ calls' = [calls EXCEPT
                           !.improve_document = @ + 1,
                           !.write_file = IF improved_doc = V2.content
                                          THEN @ + 1 ELSE @]
           /\ output_file' = IF written THEN V2.content ELSE output_file
           /\ context' = IF written /\ collaborators.save_agent_output = "ok"
                         THEN V2.content
                         ELSE context
           /\ gate_result' = IF written THEN V2 ELSE V1
           /\ call_trace' =
                  call_trace
                  \o <<Call("improve_document", ImproveKeywords)>>
                  \o (IF improved_doc = V2.content
                      THEN <<Call("write_file", {})>> ELSE <<>>)
                  \o (IF written THEN <<Call("save_agent_output", {})>> ELSE <<>>)
    /\ gate_pc' = "returned"
    /\ UNCHANGED <<quality_threshold, collaborators, score, feedback_report,
                   agent_type, is_async, generate_kwargs, twin,
                   executorVars, catalogVars, runVars, wsVars, toolVars>>

\* how a call of a loop ended: returned or raised, the (path, content) it
\* returned, and the collaborator calls it made
LoopOutcome ==
    [ended |-> gate_pc,
     path |-> IF gate_pc = "returned" THEN gate_result.path ELSE None,
     content |-> IF gate_pc = "returned" THEN gate_result.content ELSE None,
     call_trace |-> call_trace]

NoTwin == [ended |-> "no", path |-> None, content |-> None, call_trace |-> <<>>]

\* after a call of one loop has ended, the other loop is called with the
\* same arguments and collaborators that behave the same way, on a store
\* and an output file as they were before the first call
CallTwin ==
    /\ gate_pc \in {"returned", "raised"}
    /\ twin = NoTwin
    /\ twin' = LoopOutcome
    /\ is_async' = ~is_async
    /\ gate_pc' = "generate"
    /\ score' = 0
    /\ feedback_report' = None
    /\ calls' = NoCalls
    /\ output_file' = None
    /\ gate_result' = None
    /\ context' = None
    /\ call_trace' = <<>>
    /\ UNCHANGED <<quality_threshold, collaborators, agent_type, generate_kwargs,
                   executorVars, catalogVars, runVars, wsVars, toolVars>>

(***************************************************************************)
(* WorkflowCoordinator.generate_all_docs: Phase 1, Phase 2, Phase 3 and    *)
(* the final report.                                                       *)
(***************************************************************************)

\* get_phase1_tasks_for_profile / get_phase2_tasks_for_profile: the task
\* lists of a run, in scheduling order; the first Phase 1 task is the root
Phase1Docs ==
    <<"requirements", "technical_documentation", "database_schema", "user_stories">>
Phase2Docs == <<"api_documentation", "setup_guide", "test_documentation">>

\* task.dependencies: the output types a task declares it needs
Dependencies ==
    [requirements            |-> {},
     technical_documentation |-> {"requirements"},
     database_schema         |-> {"requirements", "technical_documentation"},
     user_stories            |-> {"requirements"},
     api_documentation       |-> {"technical_documentation", "database_schema"},
     setup_guide             |-> {"api_documentation"},
     test_documentation      |-> {"requirements"}]

\* the keys of phase1_deps_content
Phase1Types ==
    {"requirements", "technical_documentation", "database_schema",
     "project_charter", "user_stories"}

\* the Phase 3 steps
PackagingSteps ==
    {"cross_references", "document_index", "quality_review",
     "claude_cli_documentation", "format_conversions"}

DocRange(docs) == {docs[t] : t \in 1..Len(docs)}

\* the keys results["files"] and results["status"] can hold (None: no entry)
ResultKeys == Phase1Types \cup DocRange(Phase2Docs) \cup PackagingSteps

\* results as generate_all_docs creates it; keys holds which of the
\* entries "phase2_summary" and "execution_summary" have been stored
NewResults ==
    [project_id |-> "project_id",
     files |-> [k \in ResultKeys |-> None],
     status |-> [k \in ResultKeys |-> None],
     error |-> None,
     keys |-> {},
     phase2_summary |-> <<>>,
     execution_summary |-> <<>>]

NotRun == [step \in PackagingSteps |-> "not_run"]

\* build_phase1_task_dependencies / build_task_dependencies: the ids of the
\* phase's own tasks that produce a declared dependency
dep_task_ids(docs, t) ==
    {u \in 1..Len(docs) : docs[u] \in Dependencies[docs[t]]}

\* the tasks a phase adds to its executor
PhaseDagTasks(docs, failing) ==
    [t \in 1..Len(docs) |->
        NewTask(dep_task_ids(docs, t), IF t \in failing THEN "raise" ELSE "ok")]

\* for task in phase1_tasks: executor.add_task(...)
AddPhase1Tasks(failing) ==
    /\ run_pc = "phase1"
    /\ executor_phase = 1
    /\ pc = "created"
    /\ tasks' = PhaseDagTasks(Phase1Docs, failing)
    /\ pc' = "building"
    /\ UNCHANGED <<executor_phase, max_workers, returned, catalogVars,
                   gateVars, runVars, wsVars, toolVars>>

\* context_manager.get_agent_output(project_id, doc): an agent saves its
\* output before its task completes; the requirements agent logs and
\* swallows a failure of its save
get_agent_output(docs, doc) ==
    IF /\ \E t \in DOMAIN tasks : docs[t] = doc /\ tasks[t].status = Complete
       /\ (doc = "requirements" => save_to_context = "ok")
    THEN "content"
    ELSE None

\* deps_content as execute_phase1_task hands it to build_kwargs_for_phase1_task
phase1_task_deps_content(t) ==
    [d \in Dependencies[Phase1Docs[t]] |-> get_agent_output(Phase1Docs, d)]

\* deps_content as execute_async_task hands it to build_kwargs_for_task
phase2_task_deps_content(t) ==
    [d \in DOMAIN phase1_deps_content \cup Dependencies[Phase2Docs[t]] |->
        IF d \in DOMAIN phase1_deps_content
        THEN phase1_deps_content[d]
        ELSE get_agent_output(Phase2Docs, d)]

\* deps_content = phase1_deps_content.copy(): a dictionary of the task's
\* own, holding the entries of the moment of the copy (shared: the task
\* works on phase1_deps_content itself)
dict_alias(d) == [shared |-> TRUE, own |-> <<>>]
dict_copy(d) == [shared |-> FALSE, own |-> d]

\* the dictionary a started task's input builder reads
deps_content_of(t) ==
    IF deps_content[t].shared THEN phase1_deps_content ELSE deps_content[t].own

\* deps_content with the dictionary of the task that starts
WithDepsContent(t, d) ==
    [u \in DOMAIN deps_content \cup {t} |-> IF u = t THEN d ELSE deps_content[u]]

\* the executor starts a task of the phase and its coroutine fills
\* deps_content: execute_phase1_task starts from an empty dictionary,
\* execute_async_task from a copy of phase1_deps_content, and both read the
\* dependencies that are missing in it from the context
StartPhaseTask(t) ==
    /\ Schedule(t)
    /\ IF executor_phase = 1
       THEN /\ deps_content' =
                  WithDepsContent(t, [shared |-> FALSE,
                                      own |-> phase1_task_deps_content(t)])
            /\ UNCHANGED phase1_deps_content
       ELSE LET base == dict_copy(phase1_deps_content)
            IN  IF base.shared
                THEN /\ phase1_deps_content' = phase2_task_deps_content(t)
                     /\ deps_content' = WithDepsContent(t, base)
                ELSE /\ deps_content' =
                           WithDepsContent(t, [base EXCEPT
                               !.own = phase2_task_deps_content(t)])
                     /\ UNCHANGED phase1_deps_content
    /\ UNCHANGED <<run_pc, save_to_context, results, final_docs, packaging,
                   sync_executor, catalogVars, gateVars, wsVars, toolVars>>

\* if not req_content: raise ValueError(...)
RequirementsGeneratedUnchecked(req_content) == TRUE
RequirementsGenerated(req_content) == req_content # None

\* except Exception as e: results["error"] = str(e); return results
AbortedRunUntagged(res, e) == res
AbortedRun(res, e) == [res EXCEPT !.error = e]

\* the content Phase 1 produced for each key of phase1_deps_content
Phase1Content(ret) ==
    [d \in Phase1Types |->
        IF \E t \in 1..Len(Phase1Docs) : Phase1Docs[t] = d /\ ret[t].result # None
        THEN "content"
        ELSE None]

\* results after the loop over phase1_task_results
Phase1Processed(res, ret) ==
    LET scheduled == DocRange(Phase1Docs)
        content == Phase1Content(ret)
    IN  [res EXCEPT
            !.files = [k \in ResultKeys |->
                IF k \in scheduled /\ content[k] # None THEN "file_path" ELSE @[k]],
            !.status = [k \in ResultKeys |->
                IF k \in scheduled
                THEN IF content[k] # None THEN "complete_v2" ELSE "failed"
                ELSE @[k]]]

\* one turn of the loop over phase1_task_results: a task with a result is
\* entered with its file and the status "complete_v2", a task without one
\* with the status "failed"
Phase1TaskProcessed(res, doc, has_result, file_path) ==
    IF has_result
    THEN [res EXCEPT !.files[doc] = file_path, !.status[doc] = "complete_v2"]
    ELSE [res EXCEPT !.status[doc] = "failed"]

\* generate_all_docs enters the outcome of the gated task: what the loop
\* returned is the task's result, and a loop that raised leaves none
ProcessPhase1Task ==
    /\ gate_pc \in {"returned", "raised"}
    /\ results' = Phase1TaskProcessed(results, agent_type, gate_pc = "returned",
                                      IF gate_pc = "returned"
                                      THEN gate_result.path ELSE None)
    /\ gate_pc' = "processed"
    /\ UNCHANGED <<quality_threshold, collaborators, score, feedback_report,
                   calls, output_file, gate_result, agent_type, context,
                   is_async, generate_kwargs, call_trace, twin,
                   run_pc, save_to_context, phase1_deps_content, final_docs,
                   packaging, deps_content, sync_executor, executorVars,
                   catalogVars, wsVars, toolVars>>

\* process phase1_task_results, verify the requirements, and either abort
\* the run or set up the Phase 2 executor
ProcessPhase1Results ==
    /\ run_pc = "phase1"
    /\ executor_phase = 1
    /\ pc = "returned"
    /\ LET content == Phase1Content(returned)
           processed == Phase1Processed(results, returned)
       IN  /\ final_docs' = [d \in {k \in Phase1Types : content[k] # None} |-> "content"]
           /\ IF ~RequirementsGenerated(content["requirements"])
              THEN /\ results' = AbortedRun(processed, "Requirements not generated in Phase 1")
                   /\ run_pc' = "returned"
                   /\ UNCHANGED <<executorVars, phase1_deps_content, deps_content>>
              ELSE IF save_to_context # "ok"
              THEN /\ results' = AbortedRun(processed,
                                     "Requirements not found in context after generation")
                   /\ run_pc' = "returned"
                   /\ UNCHANGED <<executorVars, phase1_deps_content, deps_content>>
              ELSE /\ results' = processed
                   /\ run_pc' = "phase2"
                   /\ phase1_deps_content' = content
                   /\ executor_phase' = 2
                   /\ max_workers' = PhaseMaxWorkers(2)
                   /\ tasks' = <<>>
                   /\ pc' = "created"
                   /\ returned' = <<>>
                   /\ deps_content' = <<>>
    /\ UNCHANGED <<save_to_context, sync_executor, packaging, catalogVars, gateVars, wsVars, toolVars>>

\* for task in phase2_tasks: executor.add_task(...)
AddPhase2Tasks(failing) ==
    /\ run_pc = "phase2"
    /\ executor_phase = 2
    /\ pc = "created"
    /\ tasks' = PhaseDagTasks(Phase2Docs, failing)
    /\ pc' = "building"
    /\ UNCHANGED <<executor_phase, max_workers, returned, catalogVars,
                   gateVars, runVars, wsVars, toolVars>>

\* asyncio.run(executor.execute()) raises, which the except branch of
\* Phase 2 catches: the executor raises from execute() itself and not for a
\* task's failure, so no task has been started
ExecuteRaises ==
    /\ run_pc = "phase2"
    /\ executor_phase = 2
    /\ pc = "executing"
    /\ \A t \in TaskIds : ~tasks[t].started
    /\ pc' = "raised"
    /\ UNCHANGED <<executor_phase, max_workers, tasks, returned, catalogVars,
                   gateVars, runVars, wsVars, toolVars>>

\* the status the sync executor leaves task t in: a task runs once its
\* dependencies are Complete and is blocked when one of them is not
RECURSIVE sync_status(_, _)
sync_status(ts, t) ==
    IF \E d \in ts[t].dependencies : sync_status(ts, d) # Complete
    THEN Blocked
    ELSE OutcomeStatus(ts[t].work)

\* the tasks of the sync executor after sync_executor.execute()
sync_execute(ts) ==
    [t \in 1..Len(ts) |->
        IF sync_status(ts, t) = Blocked
        THEN [ts[t] EXCEPT !.status = Blocked]
        ELSE [ts[t] EXCEPT !.status = sync_status(ts, t),
                           !.result = TaskResult(ts[t].work),
                           !.error = TaskError(ts[t].work),
                           !.started = TRUE]]

\* the except branch: a SyncParallelExecutor is created, every Phase 2 task
\* is added to it again, and parallel_results is what its execute()
\* returns; the tasks of the async executor stay as the raise left them
SyncFallback(failing) ==
    /\ run_pc = "phase2"
    /\ executor_phase = 2
    /\ pc = "raised"
    /\ sync_executor' = sync_execute(PhaseDagTasks(Phase2Docs, failing))
    /\ returned' = ReturnedMapping(sync_executor')
    /\ pc' = "returned"
    /\ UNCHANGED <<executor_phase, max_workers, tasks, run_pc, save_to_context,
                   results, phase1_deps_content, final_docs, packaging,
                   deps_content, catalogVars, gateVars, wsVars, toolVars>>

\* the branch the collection loop takes for Phase 2 task t
Phase2Outcome(t, unreadable) ==
    IF tasks[t].status = Failed THEN "failed"
    ELSE IF returned[t].result # None /\ tasks[t].status = Complete
         THEN IF t \in unreadable THEN "unreadable" ELSE "complete"
         ELSE "unknown"

\* the error text the loop records with a failed task
Phase2Error(t, unreadable) ==
    IF Phase2Outcome(t, unreadable) = "failed"
    THEN IF tasks[t].error # None THEN tasks[t].error ELSE "Unknown error"
    ELSE IF Phase2Outcome(t, unreadable) = "unreadable"
         THEN "Failed to read file"
         ELSE "Task status unknown or incomplete"

\* results["phase2_summary"]
Phase2Summary(unreadable) ==
    LET ids == [t \in 1..Len(Phase2Docs) |-> t]
        Succeeded(t) == Phase2Outcome(t, unreadable) = "complete"
        NotSucceeded(t) == ~Succeeded(t)
        successful == SelectSeq(ids, Succeeded)
        failed == SelectSeq(ids, NotSucceeded)
    IN  [successful |-> [i \in 1..Len(successful) |->
                            [doc_type |-> Phase2Docs[successful[i]],
                             file_path |-> "file_path"]],
         failed |-> [i \in 1..Len(failed) |->
                            [doc_type |-> Phase2Docs[failed[i]],
                             error |-> Phase2Error(failed[i], unreadable)]],
         total |-> Len(Phase2Docs),
         success_count |-> Len(successful),
         failed_count |-> Len(failed)]

\* the loop that collects parallel_results: one branch per Phase 2 task
CollectPhase2(unreadable) ==
    /\ run_pc = "phase2"
    /\ executor_phase = 2
    /\ pc = "returned"
    /\ LET outcome == [t \in 1..Len(Phase2Docs) |-> Phase2Outcome(t, unreadable)]
           TaskOf(k) == CHOOSE t \in 1..Len(Phase2Docs) : Phase2Docs[t] = k
           scheduled == DocRange(Phase2Docs)
           read == {k \in scheduled : outcome[TaskOf(k)] = "complete"}
       IN  /\ results' = [results EXCEPT
                  !.files = [k \in ResultKeys |->
                      IF k \in scheduled
                         /\ outcome[TaskOf(k)] \in {"complete", "unreadable"}
                      THEN "file_path" ELSE @[k]],
                  !.status = [k \in ResultKeys |->
                      IF k \notin scheduled THEN @[k]
                      ELSE IF outcome[TaskOf(k)] = "complete" THEN "complete"
                      ELSE IF outcome[TaskOf(k)] = "unknown" THEN "unknown"
                      ELSE "failed"],
                  !.keys = @ \cup {"phase2_summary"},
                  !.phase2_summary = Phase2Summary(unreadable)]
           /\ final_docs' = [d \in DOMAIN final_docs \cup read |->
                                IF d \in DOMAIN final_docs THEN final_docs[d]
                                ELSE "content"]
    /\ run_pc' = "cross_references"
    /\ UNCHANGED <<save_to_context, sync_executor, phase1_deps_content, packaging,
                   deps_content, executorVars, catalogVars, gateVars, wsVars, toolVars>>

\* Phase 3 step 1: cross-references written back to the documents, then the
\* document index; a failure of either is logged only
CrossReference(outcome, updated) ==
    /\ run_pc = "cross_references"
    /\ updated \subseteq DOMAIN final_docs
    /\ final_docs' = [d \in DOMAIN final_docs |->
                         IF d \in updated THEN "referenced" ELSE final_docs[d]]
    /\ results' = IF outcome = "ok"
                  THEN [results EXCEPT !.files["document_index"] = "index_path"]
                  ELSE results
    /\ packaging' = [packaging EXCEPT
                        !["cross_references"] =
                            IF outcome = "raise" THEN "raise" ELSE "ok",
                        !["document_index"] =
                            IF outcome = "raise" THEN @
                            ELSE IF outcome = "index_raise" THEN "raise"
                            ELSE "ok"]
    /\ run_pc' = "quality_review"
    /\ UNCHANGED <<save_to_context, sync_executor, phase1_deps_content, deps_content,
                   executorVars, catalogVars, gateVars, wsVars, toolVars>>

\* Phase 3 steps 2 and 3: a report generated and saved, or the step's
\* status set to "failed"
ReportStep(step, outcome, next) ==
    /\ run_pc = step
    /\ results' = IF outcome = "ok"
                  THEN [results EXCEPT !.files[step] = "file_path",
                                       !.status[step] = "complete"]
                  ELSE [results EXCEPT !.status[step] = "failed"]
    /\ packaging' = [packaging EXCEPT ![step] = outcome]
    /\ run_pc' = next
    /\ UNCHANGED <<save_to_context, sync_executor, phase1_deps_content, final_docs,
                   deps_content, executorVars, catalogVars, gateVars, wsVars, toolVars>>

QualityReview(outcome) ==
    ReportStep("quality_review", outcome, "claude_cli_documentation")

ClaudeCliDocumentation(outcome) ==
    ReportStep("claude_cli_documentation", outcome, "format_conversions")

\* Phase 3 step 4: all formats, or HTML only after a failure, or skipped
FormatConversion(outcome) ==
    /\ run_pc = "format_conversions"
    /\ results' =
          IF outcome = "ok"
          THEN [results EXCEPT !.files["format_conversions"] = "format_results",
                               !.status["format_conversions"] = "complete"]
          ELSE IF outcome = "html_only"
          THEN [results EXCEPT !.files["format_conversions"] = "format_results",
                               !.status["format_conversions"] = "partial (HTML only)"]
          ELSE [results EXCEPT !.status["format_conversions"] = "skipped"]
    /\ packaging' = [packaging EXCEPT ![ "format_conversions"] = outcome]
    /\ run_pc' = "summary"
    /\ UNCHANGED <<save_to_context, sync_executor, phase1_deps_content, final_docs,
                   deps_content, executorVars, catalogVars, gateVars, wsVars, toolVars>>

\* the document types the final report looks up in results["status"]
phase3_doc_types ==
    {"quality_review", "claude_cli_documentation", "format_conversions",
     "document_index"}

\* the doc_type of the entries of a phase2_summary list
Phase2Listed(list) == {list[i].doc_type : i \in 1..Len(list)}

\* all_successful_docs and all_failed_docs of the final report
all_successful_docs(res) ==
    {k \in Phase1Types : res.status[k] \in {"complete", "complete_v2"}}
    \cup Phase2Listed(res.phase2_summary.successful)
    \cup {k \in phase3_doc_types :
             res.status[k] \in {"complete", "partial (HTML only)"}}

all_failed_docs_without_phase1(res) ==
    Phase2Listed(res.phase2_summary.failed)
    \cup {k \in phase3_doc_types : res.status[k] \in {"failed", "skipped"}}
all_failed_docs(res) ==
    {k \in Phase1Types : res.status[k] = "failed"}
    \cup Phase2Listed(res.phase2_summary.failed)
    \cup {k \in phase3_doc_types : res.status[k] \in {"failed", "skipped"}}

\* the final execution summary, stored in results, and the return
ExecutionSummary ==
    /\ run_pc = "summary"
    /\ results' = [results EXCEPT !.keys = @ \cup {"execution_summary"},
                                  !.execution_summary =
          [total_documents |-> Cardinality(all_successful_docs(results))
                               + Cardinality(all_failed_docs(results)),
           successful_count |-> Cardinality(all_successful_docs(results)),
           failed_count |-> Cardinality(all_failed_docs(results)),
           successful_documents |-> all_successful_docs(results),
           failed_documents |-> all_failed_docs(results)]]
    /\ run_pc' = "returned"
    /\ UNCHANGED <<save_to_context, sync_executor, phase1_deps_content, final_docs, packaging,
                   deps_content, executorVars, catalogVars, gateVars, wsVars, toolVars>>

(***************************************************************************)
(* WebSocketManager (src/web/websocket_manager.py).  connect and           *)
(* send_progress are coroutines: each runs without interruption from one   *)
(* await to the next, and other calls run while it is suspended.           *)
(***************************************************************************)

\* the project whose connections and queue are followed
Project == "project"

\* the websockets of two clients
WebSockets == {1, 2}

\* self.active_connections.get(project_id, set())
ConnectionsOf(ac) == IF Project \in DOMAIN ac THEN ac[Project] ELSE {}

\* self.message_queue.get(project_id, [])
QueueOf(mq) == IF Project \in DOMAIN mq THEN mq[Project] ELSE <<>>

\* the frame of a connect() call suspended at an await: in "accept" at
\* websocket.accept(), in "replay" at send_json(msg) for item i of
\* queued_messages; attached tells whether queued_messages still is the
\* list registered in message_queue, kept holds its items when it is not
ConnectFrame(ws) ==
    [websocket |-> ws, pc |-> "accept", i |-> 0, msg |-> 0,
     attached |-> FALSE, kept |-> <<>>, delivered |-> <<>>]

\* how a finished call ended
WsOutcome(op, ws, outcome, at_limit, queued, delivered) ==
    [op |-> op, websocket |-> ws, outcome |-> outcome, at_limit |-> at_limit,
     queued |-> queued, delivered |-> delivered]

NoOutcome == WsOutcome("none", 0, "none", FALSE, <<>>, <<>>)

\* if len(connections) >= self.max_connections_per_project
AtLimit(connections, limit) == Cardinality(connections) >= limit

\* the websockets that are registered or being connected
InUse == ConnectionsOf(active_connections) \cup {f.websocket : f \in connecting}

\* connect(), up to await websocket.accept(): at the limit the websocket is
\* closed with code 1008 and connect returns; the websocket is a new one,
\* and websockets being interchangeable it is named by the least free number
ConnectCall(ws) ==
    /\ ws \notin InUse
    /\ \A other \in WebSockets \ InUse : ws <= other
    /\ IF AtLimit(ConnectionsOf(active_connections), max_connections_per_project)
       THEN /\ ws_outcome' = WsOutcome("connect", ws, "closed", TRUE, <<>>, <<>>)
            /\ UNCHANGED connecting
       ELSE /\ connecting' = connecting \cup {ConnectFrame(ws)}
            /\ UNCHANGED ws_outcome
    /\ UNCHANGED <<max_connections_per_project, max_queue_size,
                   active_connections, message_queue, sending, sent,
                   executorVars, catalogVars, gateVars, runVars, toolVars>>

\* self.active_connections.setdefault(project_id, set()).add(websocket)
Registered(ac, ws) ==
    [p \in DOMAIN ac \cup {Project} |-> ConnectionsOf(ac) \cup {ws}]

\* connect(), from the return of websocket.accept() to the first
\* send_json of a queued message, or to its return when nothing is queued
ConnectAccepted(f) ==
    /\ f \in connecting
    /\ f.pc = "accept"
    /\ active_connections' = Registered(active_connections, f.websocket)
    /\ IF QueueOf(message_queue) # <<>>
       THEN /\ connecting' = (connecting \ {f}) \cup
                   {[f EXCEPT !.pc = "replay", !.i = 1,
                              !.msg = message_queue[Project][1],
                              !.attached = TRUE]}
            /\ UNCHANGED ws_outcome
       ELSE /\ connecting' = connecting \ {f}
            /\ ws_outcome' =
                   WsOutcome("connect", f.websocket, "returned", FALSE, <<>>, <<>>)
    /\ UNCHANGED <<max_connections_per_project, max_queue_size, message_queue,
                   sending, sent, executorVars, catalogVars, gateVars, runVars, toolVars>>

\* the items of a frame's queued_messages
QueuedMessages(f) == IF f.attached THEN QueueOf(message_queue) ELSE f.kept

\* the frames of the other connect() calls once the list registered in
\* message_queue is unregistered: they keep the list object they hold
Unregistered(frames) ==
    {IF g.attached
     THEN [g EXCEPT !.attached = FALSE, !.kept = QueueOf(message_queue)]
     ELSE g : g \in frames}

\* connect(), from the return of a send_json(msg) of the replay loop to
\* the next one; a failed send breaks the loop, and after the loop
\* del self.message_queue[project_id] runs and connect returns
ReplaySent(f, ok) ==
    /\ f \in connecting
    /\ f.pc = "replay"
    /\ LET delivered == IF ok THEN Append(f.delivered, f.msg) ELSE f.delivered
           more == ok /\ f.i + 1 <= Len(QueuedMessages(f))
       IN  IF more
           THEN /\ connecting' = (connecting \ {f}) \cup
                       {[f EXCEPT !.i = f.i + 1,
                                  !.msg = QueuedMessages(f)[f.i + 1],
                                  !.delivered = delivered]}
                /\ UNCHANGED <<message_queue, ws_outcome>>
           ELSE /\ connecting' = Unregistered(connecting \ {f})
                /\ message_queue' =
                       [p \in DOMAIN message_queue \ {Project} |-> message_queue[p]]
                /\ ws_outcome' =
                       WsOutcome("connect", f.websocket,
                                 IF Project \in DOMAIN message_queue
                                 THEN "returned" ELSE "KeyError",
                                 FALSE, QueuedMessages(f), delivered)
    /\ UNCHANGED <<max_connections_per_project, max_queue_size,
                   active_connections, sending, sent,
                   executorVars, catalogVars, gateVars, runVars, toolVars>>

\* disconnect(websocket, project_id): discard the websocket and remove the
\* project entry when no connection is left
disconnect(ac, ws) ==
    IF ConnectionsOf(ac) \ {ws} = {}
    THEN [p \in DOMAIN ac \ {Project} |-> ac[p]]
    ELSE [ac EXCEPT ![Project] = @ \ {ws}]

\* for connection in disconnected: self.disconnect(connection, project_id)
RECURSIVE disconnect_each(_, _)
disconnect_each(ac, gone) ==
    IF gone = {} THEN ac
    ELSE LET ws == CHOOSE w \in gone : TRUE
         IN  disconnect_each(disconnect(ac, ws), gone \ {ws})

\* the frames of the send_progress() calls once the registry is ac: a frame
\* iterates the set object it read, which is no longer the registered one
\* after the project entry was removed
Iterating(frames, ac) ==
    {IF Project \in DOMAIN ac THEN g ELSE [g EXCEPT !.detached = TRUE] :
        g \in frames}

\* the endpoint of a client calls disconnect for its websocket
Disconnect(ws) ==
    /\ ws \in ConnectionsOf(active_connections)
    /\ active_connections' = disconnect(active_connections, ws)
    /\ sending' = Iterating(sending, disconnect(active_connections, ws))
    /\ UNCHANGED <<max_connections_per_project, max_queue_size, message_queue,
                   connecting, sent, ws_outcome,
                   executorVars, catalogVars, gateVars, runVars, toolVars>>

\* if len(queue) >= self.max_queue_size: queue.pop(0)
QueueFullAbove(queue, limit) == Len(queue) > limit
QueueFull(queue, limit) == Len(queue) >= limit

\* the queue after send_progress has queued the payload
enqueue(queue, payload, limit) ==
    IF QueueFull(queue, limit)
    THEN Append(Tail(queue), payload)
    ELSE Append(queue, payload)

\* the frame of a send_progress() call suspended at send_json(payload) to
\* connection current: the set iterator remembers the size of the set
\* (si_used) and the connections it has yielded
SendFrame(payload, first, size) ==
    [payload |-> payload, current |-> first, si_used |-> size,
     visited |-> {first}, detached |-> FALSE, disconnected |-> {}]

\* send_progress(), up to its first await: without connections the payload
\* is queued and the call returns, else the loop over the connections
\* begins; a set yields its members in any order. The sender runs one
\* send_progress to its end before the next (generation_tasks.py:
\* loop.run_until_complete(websocket_manager.send_progress(...)))
SendProgressCall ==
    /\ sent < MaxSends
    /\ sending = {}
    /\ sent' = sent + 1
    /\ IF ConnectionsOf(active_connections) = {}
       THEN /\ message_queue' =
                   [p \in DOMAIN message_queue \cup {Project} |->
                       enqueue(QueueOf(message_queue), sent + 1, max_queue_size)]
            /\ ws_outcome' = WsOutcome("send_progress", 0, "queued", FALSE,
                                       QueueOf(message_queue), <<>>)
            /\ UNCHANGED sending
       ELSE /\ \E first \in active_connections[Project] :
                  sending' = sending \cup
                      {SendFrame(sent + 1, first,
                                 Cardinality(active_connections[Project]))}
            /\ UNCHANGED <<message_queue, ws_outcome>>
    /\ UNCHANGED <<max_connections_per_project, max_queue_size,
                   active_connections, connecting,
                   executorVars, catalogVars, gateVars, runVars, toolVars>>

\* the size the iterator of a frame finds in its set: a set whose project
\* entry was removed is empty
SetSize(f) ==
    IF f.detached THEN 0 ELSE Cardinality(ConnectionsOf(active_connections))

\* send_progress(), from the return of a send_json(payload) to the next
\* one: a failed send is noted in disconnected; the iterator raises
\* RuntimeError when the set changed size, which nothing in send_progress
\* catches; after the loop the noted connections are disconnected
SendReturned(f, ok) ==
    /\ f \in sending
    /\ LET disconnected == IF ok THEN f.disconnected
                           ELSE f.disconnected \cup {f.current}
           rest == ConnectionsOf(active_connections) \ f.visited
           cleaned == disconnect_each(active_connections, disconnected)
       IN  IF SetSize(f) # f.si_used
           THEN /\ sending' = sending \ {f}
                /\ ws_outcome' = WsOutcome("send_progress", 0, "RuntimeError",
                                           FALSE, <<>>, <<>>)
                /\ UNCHANGED active_connections
           ELSE IF rest # {}
           THEN /\ \E next \in rest :
                      sending' = (sending \ {f}) \cup
                          {[f EXCEPT !.current = next,
                                     !.visited = @ \cup {next},
                                     !.disconnected = disconnected]}
                /\ UNCHANGED <<active_connections, ws_outcome>>
           ELSE /\ active_connections' = cleaned
                /\ sending' = Iterating(sending \ {f}, cleaned)
                /\ ws_outcome' = WsOutcome("send_progress", 0, "returned",
                                           FALSE, <<>>,
                                           IF f.visited \ disconnected # {}
                                           THEN <<f.payload>> ELSE <<>>)
    /\ UNCHANGED <<max_connections_per_project, max_queue_size, message_queue,
                   connecting, sent, executorVars, catalogVars, gateVars, runVars, toolVars>>

\* clear_queue(project_id)
ClearQueue ==
    /\ Project \in DOMAIN message_queue
    /\ message_queue' = [p \in DOMAIN message_queue \ {Project} |-> message_queue[p]]
    /\ connecting' = Unregistered(connecting)
    /\ UNCHANGED <<max_connections_per_project, max_queue_size,
                   active_connections, sending, sent, ws_outcome,
                   executorVars, catalogVars, gateVars, runVars, toolVars>>

(***************************************************************************)
(* FormatConverterAgent.convert_all_documents                              *)
(* (src/agents/format_converter_agent.py).                                 *)
(***************************************************************************)

\* self.supported_formats
supported_formats == {"html", "pdf", "docx"}

\* the formats a caller can ask for: the supported ones and one that is not
Formats == supported_formats \cup {"xyz"}

\* convert(): ValueError for an unsupported format, else the path of the
\* converted file or the error of the conversion
convert(fmt, outcome) == IF fmt \notin supported_formats THEN "raise" ELSE outcome

\* one turn of "for fmt in formats": doc_results[fmt] = file_path, or
\* doc_results[fmt] = None when convert raised
ConvertedDropsFailure(doc_results, fmt, converted) ==
    IF converted = "ok"
    THEN [f \in DOMAIN doc_results \cup {fmt} |->
             IF f = fmt THEN "file_path" ELSE doc_results[f]]
    ELSE doc_results
Converted(doc_results, fmt, converted) ==
    [f \in DOMAIN doc_results \cup {fmt} |->
        IF f # fmt THEN doc_results[f]
        ELSE IF converted = "ok" THEN "file_path" ELSE None]

\* doc_results after the turns i, i + 1, ... of "for fmt in formats"
RECURSIVE convert_each(_, _, _, _)
convert_each(doc_results, fmts, outcomes, i) ==
    IF i > Len(fmts) THEN doc_results
    ELSE convert_each(Converted(doc_results, fmts[i], convert(fmts[i], outcomes[i])),
                      fmts, outcomes, i + 1)

\* convert_all_documents(documents, formats, project_id, context_manager):
\* every document is converted to every format, then the results are saved
\* to the context when a context manager is given; an error of that save
\* leaves convert_all_documents
ConvertAllDocuments(outcomes) ==
    /\ convert_pc = "called"
    /\ conversions' = outcomes
    /\ IF converter_context = "raise"
       THEN /\ convert_pc' = "raised"
            /\ UNCHANGED format_results
       ELSE /\ convert_pc' = "returned"
            /\ format_results' =
                   [d \in DOMAIN documents |->
                       convert_each(<<>>, formats, outcomes[d], 1)]
    /\ UNCHANGED <<documents, formats, converter_context, taskVars, geminiVars,
                   executorVars, catalogVars, gateVars, runVars, wsVars>>

(***************************************************************************)
(* generate_documents_task (src/tasks/generation_tasks.py): one action for *)
(* the try block of an attempt, one for its except block, one for the      *)
(* worker that runs the scheduled retry.                                   *)
(***************************************************************************)

\* @celery_app.task(max_retries=3)
task_max_retries == 3

\* the exceptions the collaborators of the task raise
Errors == {"ConnectionError", "TimeoutError", "OSError", "FileNotFoundError",
           "ValueError"}

\* the classes an exception is an instance of
Mro(e) ==
    IF e \in {"ConnectionError", "TimeoutError", "FileNotFoundError"}
    THEN {e, "OSError", "Exception"}
    ELSE {e, "Exception"}

\* isinstance(exc, (ConnectionError, TimeoutError, OSError))
is_retryable_any(e) == "Exception" \in Mro(e)
is_retryable(e) == Mro(e) \cap {"ConnectionError", "TimeoutError", "OSError"} # {}

\* retry_delay = 60 * (2 ** self.request.retries)
task_retry_delay(retries) == 60 * (2 ^ retries)

\* the parameters async_generate_all_docs declares
GenerateParameters == {"user_idea", "project_id", "profile", "codebase_path"}

\* the keyword arguments the task passes to async_generate_all_docs
GenerateKeywords ==
    {"user_idea", "project_id", "selected_documents", "codebase_path",
     "progress_callback"}

\* the call coordinator.async_generate_all_docs(**keywords): a keyword that
\* is no parameter raises TypeError before the run starts; the run returns
\* its results, with the entry "error" when generate_all_docs caught one
async_generate_all_docs(keywords, run) ==
    IF ~(keywords \subseteq GenerateParameters) THEN "TypeError" ELSE run

\* how the collaborators of one attempt behave: self.update_state, the
\* WorkflowCoordinator constructor, the run of generate_all_docs, and
\* context_manager.update_project_status
TaskEnv ==
    [update_state          : {"ok"} \cup Errors,
     coordinator           : {"ok"} \cup Errors,
     run                   : {"results", "results_with_error"},
     update_project_status : {"ok"} \cup Errors]

\* the try block of an attempt: "started" is sent, then the first
\* collaborator that raises ends the block; without an error the project
\* status "complete" is recorded, "complete" is sent and the task returns
Attempt(env) ==
    /\ task_pc = "queued"
    /\ LET run_results == async_generate_all_docs(GenerateKeywords, env.run)
           raises == IF env.update_state # "ok" THEN env.update_state
                     ELSE IF env.coordinator # "ok" THEN env.coordinator
                     ELSE IF run_results = "TypeError" THEN run_results
                     ELSE IF env.update_project_status # "ok"
                          THEN env.update_project_status
                          ELSE None
           ran == env.update_state = "ok" /\ env.coordinator = "ok"
                  /\ run_results # "TypeError"
       IN  /\ run_result' = IF ran THEN run_results ELSE None
           /\ exc' = raises
           /\ IF raises = None
              THEN /\ project_status' = "complete"
                   /\ notifications' = <<"started", "complete">>
                   /\ task_pc' = "succeeded"
              ELSE /\ notifications' = <<"started">>
                   /\ task_pc' = "handling"
                   /\ UNCHANGED project_status
    /\ UNCHANGED <<request_retries, task_raised, countdown, convertVars,
                   geminiVars, executorVars, catalogVars, gateVars, runVars, wsVars>>

\* the except block of an attempt: a retryable error with retries left sends
\* "retrying" and raises self.retry(exc=exc, countdown=retry_delay), which
\* schedules the task again unless request.retries + 1 exceeds max_retries;
\* any other error records the project status "failed", sends "failed" and
\* is raised again
HandleError(update_project_status) ==
    /\ task_pc = "handling"
    /\ IF is_retryable(exc) /\ task_max_retries - request_retries > 0
       THEN /\ notifications' = Append(notifications, "retrying")
            /\ IF request_retries + 1 > task_max_retries
               THEN /\ task_pc' = "failed"
                    /\ task_raised' = exc
                    /\ UNCHANGED countdown
               ELSE /\ task_pc' = "retry_scheduled"
                    /\ task_raised' = "Retry"
                    /\ countdown' = task_retry_delay(request_retries)
            /\ UNCHANGED project_status
       ELSE /\ task_pc' = "failed"
            /\ UNCHANGED countdown
            /\ IF update_project_status = "ok"
               THEN /\ project_status' = "failed"
                    /\ notifications' = Append(notifications, "failed")
                    /\ task_raised' = exc
               ELSE /\ task_raised' = update_project_status
                    /\ UNCHANGED <<project_status, notifications>>
    /\ UNCHANGED <<request_retries, exc, run_result, convertVars,
                   geminiVars, executorVars, catalogVars, gateVars, runVars, wsVars>>

\* the worker runs the scheduled retry when its countdown is over:
\* request.retries is one more, and the attempt starts anew
RunRetry ==
    /\ task_pc = "retry_scheduled"
    /\ request_retries' = request_retries + 1
    /\ task_pc' = "queued"
    /\ exc' = None
    /\ task_raised' = None
    /\ countdown' = 0
    /\ notifications' = <<>>
    /\ run_result' = None
    /\ UNCHANGED <<project_status, convertVars,
                   geminiVars, executorVars, catalogVars, gateVars, runVars, wsVars>>

(***************************************************************************)
(* GeminiProvider.generate (src/llm/gemini_provider.py): one action per    *)
(* turn of its retry loop, one for the code after the loop.  Times are in  *)
(* tenths of a second.                                                     *)
(***************************************************************************)

\* what gen_model.generate_content does in one attempt: it returns a
\* response with text, raises ResourceExhausted, raises another exception
\* whose message names a rate limit, or raises any other exception
ApiOutcomes == {"text", "ResourceExhausted", "rate_limit_message", "other"}

\* the outcomes that both except clauses handle as a rate limit
RateLimited == {"ResourceExhausted", "rate_limit_message"}

\* if attempt < max_retries - 1
MoreAttemptsAlways(att, retries) == att < retries
MoreAttempts(att, retries) == att < retries - 1

\* random.uniform(0, 0.3 * retry_delay): the ends of the interval
Jitter(delay) == {0, (3 * delay) \div 10}

\* one turn of "for attempt in range(max_retries)": the API call, and
\* either the return of its text, or RuntimeError for an error that is no
\* rate limit, or for a rate limit the sleep of retry_delay plus jitter and
\* the doubling of retry_delay when another attempt follows
GenerateContent(outcome, jitter) ==
    /\ gemini_pc = "loop"
    /\ attempt < max_retries
    /\ jitter \in Jitter(retry_delay)
    /\ attempt' = attempt + 1
    /\ api_calls' = Append(api_calls, outcome)
    /\ IF outcome = "text"
       THEN /\ gemini_pc' = "returned"
            /\ gemini_result' = "text"
            /\ UNCHANGED <<last_exception, sleeps, retry_delay>>
       ELSE IF outcome \notin RateLimited
       THEN /\ gemini_pc' = "raised"
            /\ gemini_result' = "RuntimeError"
            /\ UNCHANGED <<last_exception, sleeps, retry_delay>>
       ELSE /\ last_exception' = outcome
            /\ UNCHANGED <<gemini_pc, gemini_result>>
            /\ IF MoreAttempts(attempt, max_retries)
               THEN /\ sleeps' = Append(sleeps, [retry_delay |-> retry_delay,
                                                 wait_time |-> retry_delay + jitter])
                    /\ retry_delay' = retry_delay * 2
               ELSE UNCHANGED <<sleeps, retry_delay>>
    /\ UNCHANGED <<max_retries, initial_retry_delay, convertVars, taskVars,
                   executorVars, catalogVars, gateVars, runVars, wsVars>>

\* after the loop: RuntimeError, with the last rate limit error when there
\* was one
RetriesExhausted ==
    /\ gemini_pc = "loop"
    /\ attempt >= max_retries
    /\ gemini_pc' = "raised"
    /\ gemini_result' = "RuntimeError"
    /\ UNCHANGED <<max_retries, initial_retry_delay, attempt, retry_delay,
                   last_exception, api_calls, sleeps, convertVars, taskVars,
                   executorVars, catalogVars, gateVars, runVars, wsVars>>

(***************************************************************************)
(* Specifications.                                                         *)
(***************************************************************************)

NoCatalog ==
    /\ definitions = <<>>
    /\ selected_ids = <<>>
    /\ resolution = NotResolved
    /\ raw_documents = <<>>
    /\ first_run = NotResolved

NoGate ==
    /\ gate_pc = "idle"
    /\ quality_threshold = 0
    /\ collaborators = <<>>
    /\ score = 0
    /\ feedback_report = None
    /\ calls = <<>>
    /\ output_file = None
    /\ gate_result = None
    /\ agent_type = None
    /\ context = None
    /\ is_async = FALSE
    /\ generate_kwargs = {}
    /\ call_trace = <<>>
    /\ twin = <<>>

NoRun ==
    /\ run_pc = "idle"
    /\ save_to_context = "ok"
    /\ results = <<>>
    /\ phase1_deps_content = <<>>
    /\ final_docs = <<>>
    /\ packaging = <<>>
    /\ deps_content = <<>>
    /\ sync_executor = <<>>

NoWebSockets ==
    /\ max_connections_per_project = 0
    /\ max_queue_size = 0
    /\ active_connections = <<>>
    /\ message_queue = <<>>
    /\ connecting = {}
    /\ sending = {}
    /\ sent = 0
    /\ ws_outcome = <<>>

NoConvert ==
    /\ documents = <<>>
    /\ formats = <<>>
    /\ converter_context = "none"
    /\ conversions = <<>>
    /\ format_results = <<>>
    /\ convert_pc = "idle"

NoTask ==
    /\ request_retries = 0
    /\ task_pc = "idle"
    /\ exc = None
    /\ task_raised = None
    /\ countdown = 0
    /\ notifications = <<>>
    /\ project_status = None
    /\ run_result = None

NoGemini ==
    /\ max_retries = 0
    /\ initial_retry_delay = 0
    /\ attempt = 0
    /\ retry_delay = 0
    /\ last_exception = None
    /\ api_calls = <<>>
    /\ sleeps = <<>>
    /\ gemini_pc = "idle"
    /\ gemini_result = None

NoTools ==
    /\ NoConvert
    /\ NoTask
    /\ NoGemini

NoExecutor ==
    /\ executor_phase = 0
    /\ max_workers = 1
    /\ tasks = <<>>
    /\ pc = "building"
    /\ returned = <<>>

\* a stand-alone executor, right after construction
Init ==
    /\ executor_phase = 0
    /\ max_workers \in 1..MaxTasks
    /\ tasks = <<>>
    /\ pc = "building"
    /\ returned = <<>>
    /\ NoCatalog
    /\ NoGate
    /\ NoRun
    /\ NoWebSockets
    /\ NoTools

RunExecutor ==
    \/ Execute
    \/ \E t \in TaskIds : StartTask(t)
    \/ \E t \in TaskIds : FinishTask(t)
    \/ Return

Next ==
    \/ \E deps \in SUBSET TaskIds, work \in {"ok", "raise"} : AddTask(deps, work)
    \/ RunExecutor

Spec == Init /\ [][Next]_vars

\* the executor generate_all_docs creates for Phase 1 or Phase 2
InitPhase ==
    /\ executor_phase \in {1, 2}
    /\ max_workers = PhaseMaxWorkers(executor_phase)
    /\ tasks = <<>>
    /\ pc = "created"
    /\ returned = <<>>
    /\ NoCatalog
    /\ NoGate
    /\ NoRun
    /\ NoWebSockets
    /\ NoTools

NextPhase ==
    \/ \E shape \in {"flat", "rooted"}, failing \in SUBSET (1..MaxFailing) :
          AddPhaseTasks(shape, failing)
    \/ RunExecutor

SpecPhase == InitPhase /\ [][NextPhase]_vars

\* the event loop runs every ready coroutine, work runs to completion or
\* error, and the scheduling loop keeps iterating
FairSpecPhase ==
    /\ SpecPhase
    /\ WF_vars(\E t \in TaskIds : StartTask(t))
    /\ WF_vars(\E t \in TaskIds : FinishTask(t))
    /\ WF_vars(Return)

\* a loaded catalog
InitResolve ==
    /\ NoExecutor
    /\ \E defined \in SUBSET DocIds :
          definitions \in [defined -> DistinctSeqs(DocIds, MaxDeps)]
    /\ selected_ids = <<>>
    /\ resolution = NotResolved
    /\ raw_documents = <<>>
    /\ first_run = NotResolved
    /\ NoGate
    /\ NoRun
    /\ NoWebSockets
    /\ NoTools

\* the requests: ids are interchangeable labels, so the first requested id
\* is named 1; later ids may repeat it or be any other id
Requests == {q \in SeqsUpTo(DocIds, MaxSelected) : q = <<>> \/ q[1] = 1}

NextResolve == \E ids \in Requests : Resolve(ids)

SpecResolve == InitResolve /\ [][NextResolve]_vars

\* a catalog file whose documents depend only on documents listed before
\* them, loaded by a first process
InitCatalog ==
    /\ NoExecutor
    /\ raw_documents \in
          {raw \in [DocIds -> DistinctSeqs(DocIds, MaxRawDeps)] :
              \A id \in DocIds : \A i \in 1..Len(raw[id]) : raw[id][i] < id}
    /\ definitions \in load_document_definitions(raw_documents)
    /\ selected_ids = <<>>
    /\ resolution = NotResolved
    /\ first_run = NotResolved
    /\ NoGate
    /\ NoRun
    /\ NoWebSockets
    /\ NoTools

NextCatalog ==
    \/ \E ids \in SeqsUpTo(DocIds, MaxSelected) : Resolve(ids)
    \/ ResolveInNewProcess

SpecCatalog == InitCatalog /\ [][NextCatalog]_vars

\* a call of the quality loop: any threshold of the scale, any behaviour of
\* the collaborators
InitGate ==
    /\ NoExecutor
    /\ NoCatalog
    /\ gate_pc = "generate"
    /\ quality_threshold \in Scores
    /\ collaborators \in Collaborators
    /\ score = 0
    /\ feedback_report = None
    /\ calls = NoCalls
    /\ output_file = None
    /\ gate_result = None
    /\ agent_type \in GatedAgents
    /\ context = None
    /\ is_async \in BOOLEAN
    /\ generate_kwargs \in SUBSET KwargKeys
    /\ call_trace = <<>>
    /\ twin = NoTwin
    /\ run_pc = "idle"
    /\ save_to_context = "ok"
    /\ results = NewResults
    /\ phase1_deps_content = <<>>
    /\ final_docs = <<>>
    /\ packaging = <<>>
    /\ deps_content = <<>>
    /\ sync_executor = <<>>
    /\ NoWebSockets
    /\ NoTools

NextGate ==
    \/ GenerateV1
    \/ CheckV1Quality
    \/ Decide
    \/ GetFeedback
    \/ ImproveV1
    \/ ProcessPhase1Task
    \/ CallTwin

SpecGate == InitGate /\ [][NextGate]_vars

\* a call of generate_all_docs, at the creation of the Phase 1 executor
InitRun ==
    /\ executor_phase = 1
    /\ max_workers = PhaseMaxWorkers(1)
    /\ tasks = <<>>
    /\ pc = "created"
    /\ returned = <<>>
    /\ NoCatalog
    /\ NoGate
    /\ run_pc = "phase1"
    /\ save_to_context \in {"ok", "raise"}
    /\ results = NewResults
    /\ phase1_deps_content = <<>>
    /\ final_docs = <<>>
    /\ packaging = NotRun
    /\ deps_content = <<>>
    /\ sync_executor = <<>>
    /\ NoWebSockets
    /\ NoTools

NextRun ==
    \/ \E failing \in SUBSET (1..Len(Phase1Docs)) : AddPhase1Tasks(failing)
    \/ Execute
    \/ \E t \in TaskIds : StartPhaseTask(t)
    \/ \E t \in TaskIds : FinishTask(t)
    \/ Return
    \/ ProcessPhase1Results
    \/ \E failing \in SUBSET (1..Len(Phase2Docs)) : AddPhase2Tasks(failing)
    \/ ExecuteRaises
    \/ \E failing \in SUBSET (1..Len(Phase2Docs)) : SyncFallback(failing)
    \/ \E unreadable \in SUBSET (1..Len(Phase2Docs)) : CollectPhase2(unreadable)
    \/ \E outcome \in {"ok", "index_raise", "raise"},
          updated \in SUBSET DOMAIN final_docs :
          CrossReference(outcome, updated)
    \/ \E outcome \in {"ok", "raise"} : QualityReview(outcome)
    \/ \E outcome \in {"ok", "raise"} : ClaudeCliDocumentation(outcome)
    \/ \E outcome \in {"ok", "html_only", "raise"} : FormatConversion(outcome)
    \/ ExecutionSummary

SpecRun == InitRun /\ [][NextRun]_vars

\* a WebSocketManager, right after construction
InitWebSockets ==
    /\ NoExecutor
    /\ NoCatalog
    /\ NoGate
    /\ NoRun
    /\ max_connections_per_project \in 1..MaxConnections
    /\ max_queue_size \in 1..MaxQueueSize
    /\ active_connections = <<>>
    /\ message_queue = <<>>
    /\ connecting = {}
    /\ sending = {}
    /\ sent = 0
    /\ ws_outcome = NoOutcome
    /\ NoTools

NextWebSockets ==
    \/ \E ws \in WebSockets : ConnectCall(ws)
    \/ \E f \in connecting : ConnectAccepted(f)
    \/ \E f \in connecting, ok \in BOOLEAN : ReplaySent(f, ok)
    \/ \E ws \in WebSockets : Disconnect(ws)
    \/ SendProgressCall
    \/ \E f \in sending, ok \in BOOLEAN : SendReturned(f, ok)
    \/ ClearQueue

SpecWebSockets == InitWebSockets /\ [][NextWebSockets]_vars

\* a call of convert_all_documents
InitConvert ==
    /\ NoExecutor
    /\ NoCatalog
    /\ NoGate
    /\ NoRun
    /\ NoWebSockets
    /\ documents \in {[d \in 1..n |-> "markdown"] : n \in 0..MaxDocuments}
    /\ formats \in SeqsUpTo(Formats, MaxFormats)
    /\ converter_context \in {"none", "ok", "raise"}
    /\ conversions = <<>>
    /\ format_results = <<>>
    /\ convert_pc = "called"
    /\ NoTask
    /\ NoGemini

NextConvert ==
    \E outcomes \in [DOMAIN documents -> [1..Len(formats) -> {"ok", "raise"}]] :
        ConvertAllDocuments(outcomes)

SpecConvert == InitConvert /\ [][NextConvert]_vars

\* a request handed to the worker: the first attempt of generate_documents_task
InitTask ==
    /\ NoExecutor
    /\ NoCatalog
    /\ NoGate
    /\ NoRun
    /\ NoWebSockets
    /\ NoConvert
    /\ request_retries = 0
    /\ task_pc = "queued"
    /\ exc = None
    /\ task_raised = None
    /\ countdown = 0
    /\ notifications = <<>>
    /\ project_status = None
    /\ run_result = None
    /\ NoGemini

NextTask ==
    \/ \E env \in TaskEnv : Attempt(env)
    \/ \E update_project_status \in {"ok"} \cup Errors :
          HandleError(update_project_status)
    \/ RunRetry

SpecTask == InitTask /\ [][NextTask]_vars

\* a call of GeminiProvider.generate, at the start of its retry loop
InitGemini ==
    /\ NoExecutor
    /\ NoCatalog
    /\ NoGate
    /\ NoRun
    /\ NoWebSockets
    /\ NoConvert
    /\ NoTask
    /\ max_retries \in 0..MaxGeminiRetries
    /\ initial_retry_delay \in {10, 20}
    /\ attempt = 0
    /\ retry_delay = initial_retry_delay
    /\ last_exception = None
    /\ api_calls = <<>>
    /\ sleeps = <<>>
    /\ gemini_pc = "loop"
    /\ gemini_result = None

NextGemini ==
    \/ \E outcome \in ApiOutcomes, jitter \in Jitter(retry_delay) :
          GenerateContent(outcome, jitter)
    \/ RetriesExhausted

SpecGemini == InitGemini /\ [][NextGemini]_vars

(***************************************************************************)
(* Properties of the executor.                                             *)
(***************************************************************************)

Terminal == {Complete, Failed, Blocked}

\* the tasks that task t depends on, directly or transitively
Ancestors(t) == {a \in TaskIds \ {t} : t \in Dependents(tasks, {a})}

\* C1: the mapping execute() returns has exactly one entry per task added
\* through add_task, every entry is Complete, Failed or Blocked, and no task
\* is left Pending or Running.
C1_FullMapping ==
    pc = "returned" =>
        /\ DOMAIN returned = TaskIds
        /\ \A t \in TaskIds :
              /\ returned[t].status \in Terminal
              /\ tasks[t].status = returned[t].status

C1_Witness ==
    /\ pc = "returned"
    /\ Len(tasks) >= 3
    /\ \E a, b, c \in TaskIds :
          /\ returned[a].status = Complete
          /\ returned[b].status = Failed
          /\ returned[c].status = Blocked

\* C2: once a task has Failed, every task that depends on it directly or
\* transitively is Blocked and its work was never started; the mapping
\* execute() returns reports them Blocked.
C2_BlockedPropagation ==
    \A a \in TaskIds :
        tasks[a].status = Failed =>
            \A d \in Dependents(tasks, {a}) \ {a} :
                /\ tasks[d].status = Blocked
                /\ ~tasks[d].started
                /\ pc = "returned" => returned[d].status = Blocked

C2_Witness ==
    /\ pc = "returned"
    /\ \E a, b, c \in TaskIds :
          /\ tasks[a].status = Failed
          /\ tasks[b].dependencies = {a}
          /\ tasks[c].dependencies = {b}
          /\ tasks[b].status = Blocked
          /\ tasks[c].status = Blocked

\* C3: a task is Running only while every one of its declared dependencies
\* is Complete, and a task whose work was started has only Complete
\* dependencies.
C3_RunsAfterDependencies ==
    \A t \in TaskIds :
        (tasks[t].status = Running \/ tasks[t].started) =>
            \A d \in tasks[t].dependencies : tasks[d].status = Complete

C3_Witness ==
    \E t, u \in TaskIds :
        /\ tasks[t].status = Running
        /\ Cardinality(tasks[t].dependencies) = 2
        /\ tasks[u].status = Pending
        /\ t \in tasks[u].dependencies

\* C4: the number of Running tasks never exceeds the executor's cap, which
\* is 4 for the Phase-1 executor and 8 for the Phase-2 executor.
C4_ConcurrencyCap ==
    LET running == Cardinality(InStatus(tasks, Running))
    IN  /\ running <= max_workers
        /\ executor_phase = 1 => running <= 4
        /\ executor_phase = 2 => running <= 8

C4_Witness ==
    /\ executor_phase = 2
    /\ Cardinality(InStatus(tasks, Running)) = 8
    /\ \E t \in TaskIds : IsReady(tasks, t)

\* C5: a task's status changes only Pending->Running, Running->Complete,
\* Running->Failed or Pending->Blocked, and a task becomes Blocked only when
\* one of its dependencies is Failed or Blocked.
C5_StatusTransitions ==
    [][\A t \in TaskIds :
          tasks'[t].status # tasks[t].status =>
              /\ <<tasks[t].status, tasks'[t].status>> \in
                     {<<Pending, Running>>, <<Running, Complete>>,
                      <<Running, Failed>>, <<Pending, Blocked>>}
              /\ tasks'[t].status = Blocked =>
                     \E d \in tasks[t].dependencies :
                         tasks'[d].status \in {Failed, Blocked}]_vars

C5_Witness ==
    /\ pc = "executing"
    /\ \E a, b, c, d \in TaskIds :
          /\ tasks[a].status = Failed
          /\ tasks[b].status = Blocked
          /\ tasks[c].status = Complete
          /\ tasks[d].status = Running

\* C6: work that raises never makes execute() raise; the task is Failed with
\* the error stored, and in the returned mapping every task with no Failed
\* task among the tasks it depends on was started and is Complete or Failed
\* as its own work returned or raised.
C6_FailureIsolation ==
    /\ pc # "raised"
    /\ \A t \in TaskIds :
          tasks[t].status = Failed =>
              tasks[t].error = "GenerationFailed" /\ tasks[t].work = "raise"
    /\ pc = "returned" =>
          \A t \in TaskIds :
              (\A a \in Ancestors(t) : tasks[a].status # Failed) =>
                  /\ tasks[t].started
                  /\ tasks[t].work = "ok" => returned[t].status = Complete
                  /\ tasks[t].work = "raise" =>
                        /\ returned[t].status = Failed
                        /\ returned[t].error = "GenerationFailed"

C6_Witness ==
    /\ pc = "returned"
    /\ \E a, b, c \in TaskIds :
          /\ returned[a].status = Failed
          /\ a \in tasks[b].dependencies
          /\ tasks[c].dependencies = {}
          /\ tasks[c].started
          /\ returned[c].status = Complete
          /\ c > a

\* the tasks whose work succeeds and that depend only on such tasks
Succeeding ==
    {t \in TaskIds :
        /\ tasks[t].work = "ok"
        /\ \A a \in Ancestors(t) : tasks[a].work = "ok"}

\* C7: execute() terminates, and when it returns every task whose work
\* succeeds and that depends on no task whose work raises is Complete, under
\* every order of starts and finishes.
C7_IndependentComplete ==
    (pc = "executing") ~>
        (pc = "returned" /\ \A t \in Succeeding : returned[t].status = Complete)

C7_Witness ==
    /\ pc = "returned"
    /\ Len(tasks) >= 3
    /\ \A t \in TaskIds :
          tasks[t].dependencies = {} /\ returned[t].status = Complete

\* a TaskExecution holds a result exactly when it is Complete and an error
\* exactly when it is Failed
ResultAndErrorMatchStatus(task) ==
    /\ task.result # None <=> task.status = Complete
    /\ task.error # None <=> task.status = Failed

\* C24: in every state of the executor and in the mapping execute() returns,
\* a task has a result exactly when it is Complete and an error exactly when
\* it is Failed; Pending, Running and Blocked tasks have neither.
C24_ResultIffComplete ==
    /\ \A t \in TaskIds : ResultAndErrorMatchStatus(tasks[t])
    /\ pc = "returned" =>
          \A t \in DOMAIN returned : ResultAndErrorMatchStatus(returned[t])

\* one task each Complete, Failed, Running and Pending, while execute() runs
C24_Witness ==
    /\ pc = "executing"
    /\ \E a, b, c, d \in TaskIds :
          /\ tasks[a].status = Complete /\ tasks[a].result = "Artifact"
          /\ tasks[b].status = Failed /\ tasks[b].error = "GenerationFailed"
          /\ tasks[c].status = Running
          /\ tasks[d].status = Pending /\ tasks[d].dependencies = {c}

(***************************************************************************)
(* Properties of the resolver.                                             *)
(***************************************************************************)

Range(q) == {q[i] : i \in 1..Len(q)}

\* the declared dependencies of a document id (none for an undefined id)
DepsOf(x) == IF x \in DOMAIN definitions THEN Range(definitions[x]) ELSE {}

\* the ids of S and everything they depend on, directly or transitively
RECURSIVE Reach(_)
Reach(S) ==
    LET more == UNION {DepsOf(x) : x \in S} \ S
    IN  IF more = {} THEN S ELSE Reach(S \cup more)

\* the direct and transitive dependencies of x
TransitiveDeps(x) == Reach(DepsOf(x))

ReachableIds == Reach(Range(selected_ids))
OnCycle(x) == x \in TransitiveDeps(x)
CycleReachable == \E x \in ReachableIds : OnCycle(x)
UnknownReachable == \E x \in ReachableIds : x \notin DOMAIN definitions
Resolved == resolution # NotResolved

C11_SameOrderEveryRun ==
    (first_run.outcome = "order" /\ resolution.outcome = "order") =>
        resolution.order = first_run.order

\* C9 as claimed: whenever a cycle is reachable from the requested ids the
\* resolver raises the cycle error, naming an id on a cycle.
C9_CycleAlwaysCycleError ==
    (Resolved /\ CycleReachable) =>
        resolution.outcome = "cycle" /\ OnCycle(resolution.named)

\* C9: when a cycle is reachable from the requested ids no order is
\* returned; the error is the cycle error, naming an id on a cycle, unless
\* an undefined id is reachable too, in which case it may be the
\* unknown-id error instead.
C9_CycleRejected ==
    (Resolved /\ CycleReachable) =>
        /\ resolution.outcome \in {"cycle", "unknown"}
        /\ resolution.order = <<>>
        /\ ~UnknownReachable => resolution.outcome = "cycle"
        /\ resolution.outcome = "cycle" => OnCycle(resolution.named)

C9_Witness ==
    /\ resolution.outcome = "cycle"
    /\ ~UnknownReachable
    /\ resolution.named \notin DepsOf(resolution.named)
    /\ resolution.named \notin Range(selected_ids)

\* C10 as claimed: whenever an undefined id is reachable from the requested
\* ids the resolver raises the unknown-id error.
C10_UnknownAlwaysUnknownError ==
    (Resolved /\ UnknownReachable) => resolution.outcome = "unknown"

\* C10: when an undefined id is reachable from the requested ids no order
\* is returned; the error is the unknown-id error, naming an undefined id,
\* unless a cycle is reachable too, in which case it may be the cycle error
\* instead.
C10_UnknownRejected ==
    (Resolved /\ UnknownReachable) =>
        /\ resolution.outcome \in {"cycle", "unknown"}
        /\ resolution.order = <<>>
        /\ ~CycleReachable => resolution.outcome = "unknown"
        /\ resolution.outcome = "unknown" =>
              /\ resolution.named \in ReachableIds
              /\ resolution.named \notin DOMAIN definitions

C10_Witness ==
    /\ resolution.outcome = "unknown"
    /\ ~CycleReachable
    /\ resolution.named \notin Range(selected_ids)
    /\ Len(selected_ids) = 2
    /\ Cardinality(DOMAIN definitions) = 2

(***************************************************************************)
(* Properties of the quality gate.                                         *)
(***************************************************************************)

\* a call of improve_document in call_trace
IsImproveCall(c) == c.fn = "improve_document"

\* the checker returned a score for V1 (it did not raise)
Scored == collaborators.check_quality = "ok"

\* C12: when scoring V1 succeeded with a score at or above the threshold
\* (equal included), the loop returns exactly V1, path and content, and
\* has called neither the feedback generator nor improve_document
C12_AcceptsV1 ==
    (/\ gate_pc = "returned"
     /\ Scored
     /\ collaborators.overall_score >= quality_threshold)
        => /\ gate_result = V1
           /\ calls.generate = 0
           /\ calls.improve_document = 0

\* V1 scored exactly the threshold and was returned
C12_Witness ==
    /\ gate_pc = "returned"
    /\ Scored
    /\ quality_threshold > 0
    /\ collaborators.overall_score = quality_threshold
    /\ gate_result = V1
    /\ output_file = V1.content

\* C13 as claimed: when V1 scores below the threshold the loop calls
\* improve_document exactly once, and returns V2 when the improver and the
\* write of its document succeed, V1 otherwise
C13_ImprovesOnceBelowThreshold ==
    (gate_pc = "returned" /\ score < quality_threshold)
        => /\ calls.improve_document = 1
           /\ gate_result =
                 IF collaborators.llm = "ok" /\ collaborators.write_file = "ok"
                 THEN V2
                 ELSE V1

\* C14 as claimed: whatever the threshold, when the checker raised on V1
\* the loop has called improve_document exactly once before it returns
C14_ScoringFailureImproves ==
    (gate_pc = "returned" /\ collaborators.check_quality = "raise")
        => calls.improve_document = 1

\* C21 as claimed: the document generate_all_docs enters for a gated task
\* carries the revision tag ("complete_v2") exactly when the loop returned
\* the improver's V2; a V1 returned unchanged is not tagged as a revision
C21_RevisionTagIffImproved ==
    (gate_pc = "processed" /\ results.status[agent_type] # "failed")
        => (results.status[agent_type] = "complete_v2" <=> gate_result = V2)

\* C22 as claimed: when the loop has returned, so that its task is Complete,
\* the context store holds the content the loop returned
C22_ReturnedArtifactStored ==
    gate_pc = "returned" => context = gate_result.content

\* both loops have been called with the same arguments and have ended
BothEnded == gate_pc \in {"returned", "raised"} /\ twin # NoTwin

C36_FeedbackFailureStillImproves ==
    /\ (gate_pc \in {"improve", "returned"}
        /\ score < quality_threshold /\ collaborators.generate = "raise")
          => feedback_report = "simplified"
    /\ (gate_pc = "returned"
        /\ score < quality_threshold /\ collaborators.generate = "raise")
          => /\ calls.generate = 1
             /\ calls.improve_document = 1
             /\ Len(SelectSeq(call_trace, IsImproveCall)) = 1
    /\ (gate_pc = "raised") => score = 0 /\ calls.generate = 0

\* the reviewer failed on a V1 below the threshold, and the loop returned
\* after one call of improve_document with the simplified feedback
C36_Witness ==
    /\ gate_pc = "returned"
    /\ Scored
    /\ score < quality_threshold
    /\ collaborators.generate = "raise"
    /\ feedback_report = "simplified"
    /\ calls.improve_document = 1

(***************************************************************************)
(* Properties of generate_all_docs.                                        *)
(***************************************************************************)

InRun == run_pc # "idle"

\* the Phase 1 executor has returned and the root task is not Complete
RootNotComplete ==
    /\ InRun
    /\ executor_phase = 1
    /\ pc = "returned"
    /\ tasks[1].status # Complete

\* C15: when the root requirements task does not complete in Phase 1 the
\* run is aborted: what it returns carries an error, the Phase 2 executor
\* is never created and no Phase 3 step runs
C15_RootFailureAborts ==
    /\ (RootNotComplete /\ run_pc = "returned") => results.error # None
    /\ (RootNotComplete \/ results.status["requirements"] = "failed") =>
          /\ executor_phase = 1
          /\ "phase2_summary" \notin results.keys
          /\ packaging = NotRun
          /\ run_pc \in {"phase1", "returned"}

\* the root failed, a dependent was Blocked, and the run returned its error
C15_Witness ==
    /\ run_pc = "returned"
    /\ executor_phase = 1
    /\ tasks[1].status = Failed
    /\ tasks[2].status = Blocked
    /\ results.error = "Requirements not generated in Phase 1"
    /\ results.status["requirements"] = "failed"

\* the documents of failed tasks other than the root
FailedDocs ==
    {Phase1Docs[t] : t \in {u \in DOMAIN tasks :
        executor_phase = 1 /\ u > 1 /\ tasks[u].status = Failed}}
    \cup {k \in DocRange(Phase1Docs) \ {Phase1Docs[1]} :
        executor_phase = 2 /\ results.status[k] = "failed"}
    \cup {Phase2Docs[t] : t \in {u \in DOMAIN tasks :
        executor_phase = 2 /\ tasks[u].status = Failed}}

\* the root task completed in Phase 1
RootCompleted ==
    IF executor_phase = 1
    THEN pc = "returned" /\ tasks[1].status = Complete
    ELSE results.status["requirements"] = "complete_v2"

\* the run went through every phase and lists the failed documents
RanToTheEnd ==
    /\ results.error = None
    /\ "phase2_summary" \in results.keys
    /\ packaging["format_conversions"] # "not_run"
    /\ "execution_summary" \in results.keys
    /\ FailedDocs # {}
    /\ FailedDocs \subseteq results.execution_summary.failed_documents

C17_PhaseOrder ==
    InRun =>
        /\ (executor_phase = 2 /\ tasks # <<>>)
              => results.status["requirements"] = "complete_v2"
        /\ (packaging # NotRun \/ run_pc \notin {"phase1", "phase2", "returned"})
              => /\ executor_phase = 2
                 /\ pc = "returned"
                 /\ "phase2_summary" \in results.keys

\* Phase 2 ran after a complete root, and Phase 3 has begun
C17_Witness ==
    /\ run_pc = "quality_review"
    /\ executor_phase = 2
    /\ tasks[1].status = Complete
    /\ packaging["cross_references"] = "ok"
    /\ results.status["requirements"] = "complete_v2"

\* C18 as claimed: whenever a task's input builder has run, the
\* deps_content it was handed holds a value for every declared dependency
C18_NoNullDependency ==
    InRun =>
        \A t \in DOMAIN tasks :
            tasks[t].started =>
                IF executor_phase = 1
                THEN \A d \in Dependencies[Phase1Docs[t]] :
                        phase1_task_deps_content(t)[d] # None
                ELSE \A d \in Dependencies[Phase2Docs[t]] :
                        phase2_task_deps_content(t)[d] # None

\* the returned run reports document k as generated
ReportedGenerated(k) == k \in results.execution_summary.successful_documents

\* the returned run reports document k as failed, with an error reason
ReportedFailedWithReason(k) ==
    /\ k \in results.execution_summary.failed_documents
    /\ \E i \in 1..Len(results.phase2_summary.failed) :
          /\ results.phase2_summary.failed[i].doc_type = k
          /\ results.phase2_summary.failed[i].error # None

\* C19 as claimed: in a run that reaches the final report every scheduled
\* Phase 1 or Phase 2 task is reported as generated or as failed with an
\* error reason, and the Phase 2 lists partition the Phase 2 tasks
C19_EveryTaskReported ==
    (run_pc = "returned" /\ results.error = None) =>
        /\ \A k \in DocRange(Phase1Docs) \cup DocRange(Phase2Docs) :
              ReportedGenerated(k) \/ ReportedFailedWithReason(k)
        /\ results.phase2_summary.success_count
              + results.phase2_summary.failed_count
                 = results.phase2_summary.total
        /\ \A k \in DocRange(Phase2Docs) :
              (k \in Phase2Listed(results.phase2_summary.successful))
                 # (k \in Phase2Listed(results.phase2_summary.failed))

\* C20 as claimed: in a returned run every Phase 3 step has run, a step
\* that failed has a status of its own saying so, and the Phase 1 and
\* Phase 2 entries are those the two phases wrote
C20_PackagingFailureRecorded ==
    (run_pc = "returned" /\ results.error = None) =>
        /\ \A step \in PackagingSteps :
              /\ packaging[step] # "not_run"
              /\ packaging[step] \in {"raise", "html_only"} =>
                    results.status[step] \in
                        {"failed", "skipped", "partial (HTML only)"}
        /\ \A k \in DocRange(Phase1Docs) :
              /\ results.status[k] \in {"complete_v2", "failed"}
              /\ results.files[k] # None <=> results.status[k] = "complete_v2"
        /\ \A k \in DocRange(Phase2Docs) :
              results.status[k] = "complete"
                 <=> k \in Phase2Listed(results.phase2_summary.successful)

\* C25 as claimed: a returned run in which the requirements document was
\* generated has a project_id, lists "requirements" among its files and
\* gives it the status "complete"
C25_RequirementsStatusComplete ==
    (InRun /\ run_pc = "returned" /\ RootCompleted) =>
        /\ results.project_id # None
        /\ results.files["requirements"] # None
        /\ results.status["requirements"] = "complete"

\* the error the Phase 2 summary lists for a document, None when it lists none
SummaryError(doc) ==
    LET failed == results.phase2_summary.failed
        listed == {i \in 1..Len(failed) : failed[i].doc_type = doc}
    IN  IF listed = {} THEN None ELSE failed[CHOOSE i \in listed : TRUE].error

\* C39 as claimed: after the async Phase 2 executor raised and Phase 2 was
\* run again on the sync fallback executor, each Phase 2 document is
\* reported with the status and the error of the fallback executor's run of
\* its task: "complete" with its file when the run returned a file path
\* that could be read, "failed" with the task's error when the task failed
C39_FallbackStatusReported ==
    (run_pc = "cross_references" /\ sync_executor # <<>>) =>
        \A t \in 1..Len(Phase2Docs) :
            LET doc == Phase2Docs[t]
                run == sync_executor[t]
            IN  /\ (run.status = Complete
                    /\ SummaryError(doc) # "Failed to read file")
                      => /\ results.status[doc] = "complete"
                         /\ results.files[doc] # None
                /\ run.status = Failed
                      => /\ results.status[doc] = "failed"
                         /\ SummaryError(doc) = run.error
                /\ run.result = None => results.files[doc] = None

\* C23: the deps_content a Running task was handed when it started stays
\* as it was handed, whatever the other tasks of the phase do: start and
\* fill their own deps_content, complete, fail or get blocked
C23_SnapshotUnchanged ==
    [][\A t \in DOMAIN deps_content :
          (/\ tasks[t].status = Running
           /\ executor_phase' = executor_phase
           /\ t \in DOMAIN deps_content')
              => deps_content_of(t)' = deps_content_of(t)]_vars

\* a Phase 2 task still runs with the dictionary it was handed, while a
\* task started later holds an output that completed in between
C23_Witness ==
    /\ executor_phase = 2
    /\ run_pc = "phase2"
    /\ Len(tasks) = Len(Phase2Docs)
    /\ tasks[1].status = Complete
    /\ tasks[2].status = Running
    /\ tasks[3].status = Running
    /\ DOMAIN deps_content = {1, 2, 3}
    /\ "api_documentation" \in DOMAIN deps_content_of(2)
    /\ "api_documentation" \notin DOMAIN deps_content_of(3)

(***************************************************************************)
(* Properties of the WebSocketManager.                                     *)
(***************************************************************************)

\* C26 as claimed: under every interleaving of connect, disconnect and
\* send_progress the registered connections of a project never number
\* more than max_connections_per_project
C26_ConnectionLimit ==
    Cardinality(ConnectionsOf(active_connections)) <= max_connections_per_project

\* C27 as claimed: a connect on a project that already has
\* max_connections_per_project connections raises ValueError and does not
\* register the websocket
C27_AtLimitRaisesValueError ==
    (ws_outcome.op = "connect" /\ ws_outcome.at_limit) =>
        /\ ws_outcome.outcome = "ValueError"
        /\ \A f \in connecting : f.websocket # ws_outcome.websocket

\* the queue of undelivered messages holds at most max_queue_size messages
QueueBounded == Len(QueueOf(message_queue)) <= max_queue_size

\* a message that is queued is appended last, after the oldest queued
\* message was dropped if the queue was full
QueuedLast ==
    LET old == QueueOf(message_queue)
        new == QueueOf(message_queue')
    IN  (new # old /\ new # <<>>) =>
            new = IF Len(old) >= max_queue_size
                  THEN Append(Tail(old), sent')
                  ELSE Append(old, sent')

\* C28: the queue of undelivered messages never holds more than
\* max_queue_size messages; a message arriving at a full queue evicts the
\* oldest one and is appended last, so the queue holds the most recent
\* messages in arrival order
C28_QueueKeepsMostRecent == []QueueBounded /\ [][QueuedLast]_vars

\* a message arrived at a full queue of two and took the place of the oldest
C28_Witness ==
    /\ ws_outcome.outcome = "queued"
    /\ max_queue_size = 2
    /\ Len(ws_outcome.queued) = max_queue_size
    /\ QueueOf(message_queue) = <<ws_outcome.queued[2], sent>>

\* C29 as claimed: the messages queued while the project had no connection
\* are all delivered, in the order they were sent, to the client whose
\* connect finds them, and that connect returns
C29_QueuedDeliveredInOrder ==
    (ws_outcome.op = "connect" /\ ws_outcome.queued # <<>>) =>
        /\ ws_outcome.outcome = "returned"
        /\ ws_outcome.delivered = ws_outcome.queued

\* C30 as claimed: send_progress never raises, whatever connect and
\* disconnect calls run while it is suspended
C30_SendProgressNeverRaises ==
    ws_outcome.op = "send_progress" => ws_outcome.outcome # "RuntimeError"

\* the messages of a list
Messages(queue) == {queue[i] : i \in DOMAIN queue}

\* a send_progress call ends in this step
SendProgressEnds == sent' # sent \/ (sending # {} /\ sending' = {})

\* the replay of a connect call ends in this step
ReplayEnds ==
    \E f \in connecting :
        /\ f.pc = "replay"
        /\ \A g \in connecting' : g.websocket # f.websocket

\* C38 as claimed: a message passed to send_progress is delivered to at
\* least one client or is in the project's queue when the call ends, also
\* when every send to the registered connections fails; and the messages a
\* connecting client finds queued are delivered to it or are still queued
\* when its connect ends, also when the replay fails part-way
C38_NoMessageLost ==
    [][/\ (SendProgressEnds /\ sending' = {}) =>
              \/ /\ ws_outcome'.op = "send_progress"
                 /\ sent' \in Messages(ws_outcome'.delivered)
              \/ sent' \in Messages(QueueOf(message_queue'))
       /\ ReplayEnds =>
              Messages(ws_outcome'.queued) \subseteq
                  Messages(ws_outcome'.delivered)
                  \cup Messages(QueueOf(message_queue'))]_vars

(***************************************************************************)
(* Properties of the format converter.                                     *)
(***************************************************************************)

\* the places of formats that hold the last request for their format
LastRequests == {i \in 1..Len(formats) :
                    \A j \in (i + 1)..Len(formats) : formats[j] # formats[i]}

\* C31: the mapping convert_all_documents returns has exactly one entry per
\* input document, each with exactly one entry per requested format; the
\* entry of a format is None exactly when its conversion failed, whatever the
\* other conversions did.
C31_OneEntryPerDocumentAndFormat ==
    convert_pc = "returned" =>
        /\ DOMAIN format_results = DOMAIN documents
        /\ \A d \in DOMAIN documents :
              /\ DOMAIN format_results[d] = {formats[i] : i \in 1..Len(formats)}
              /\ \A i \in LastRequests :
                    format_results[d][formats[i]] = None
                        <=> convert(formats[i], conversions[d][i]) = "raise"

\* two documents and two formats: the first conversion failed, and the
\* conversions after it of the same document and of the next one succeeded
C31_Witness ==
    /\ convert_pc = "returned"
    /\ Len(documents) = 2
    /\ Len(formats) = 2
    /\ formats[1] # formats[2]
    /\ formats[1] \in supported_formats
    /\ conversions[1][1] = "raise"
    /\ format_results[1][formats[1]] = None
    /\ format_results[1][formats[2]] = "file_path"
    /\ format_results[2][formats[1]] = "file_path"

(***************************************************************************)
(* Properties of generate_documents_task.                                  *)
(***************************************************************************)

\* the attempt is over: the task returned or raised
AttemptOver == task_pc \in {"succeeded", "retry_scheduled", "failed"}

\* C32: an attempt schedules a retry exactly when the error of its try block
\* is a ConnectionError, TimeoutError or OSError and fewer than 3 retries
\* have been used; the countdown is 60, 120, 240 seconds for the first,
\* second, third retry; a request is attempted at most 4 times.
C32_RetryPolicy ==
    /\ request_retries + 1 <= 4
    /\ task_pc = "retry_scheduled" =>
          /\ "OSError" \in Mro(exc)
          /\ request_retries < 3
          /\ countdown = <<60, 120, 240>>[request_retries + 1]
    /\ task_pc = "failed" => ~("OSError" \in Mro(exc) /\ request_retries < 3)

\* the third retry is scheduled with a countdown of 240 seconds
C32_Witness ==
    /\ task_pc = "retry_scheduled"
    /\ request_retries = 2
    /\ countdown = 240

\* C33: every attempt reports exactly one outcome after "started":
\* "complete", "retrying" or "failed"; the project status "failed" is
\* recorded and the error raised again only on an attempt that schedules no
\* retry.
C33_OneOutcomePerAttempt ==
    AttemptOver =>
        /\ Len(notifications) = 2
        /\ notifications[1] = "started"
        /\ notifications[2] \in {"complete", "retrying", "failed"}
        /\ task_pc = "retry_scheduled" =>
              project_status # "failed" /\ task_raised = "Retry"

DoublingSleeps ==
    \A i \in 1..Len(sleeps) :
        /\ sleeps[i].retry_delay = initial_retry_delay * (2 ^ (i - 1))
        /\ sleeps[i].wait_time >= sleeps[i].retry_delay
        /\ 10 * sleeps[i].wait_time <= 13 * sleeps[i].retry_delay

\* the attempts that ended with a rate-limit error
RateLimitedAttempts == {i \in 1..Len(api_calls) : api_calls[i] \in RateLimited}

\* C34: generate makes at most max_retries API attempts; it returns the
\* text of the first attempt that succeeds; it retries rate-limit errors
\* only and raises RuntimeError at once on any other error; it raises
\* RuntimeError after max_retries rate-limit errors in a row; it sleeps with
\* a doubling delay after each rate-limited attempt but the last one.
C34_BoundedRetries ==
    /\ Len(api_calls) = attempt
    /\ attempt <= max_retries
    /\ \A i \in 1..(attempt - 1) : i \in RateLimitedAttempts
    /\ gemini_pc = "loop" => RateLimitedAttempts = 1..attempt
    /\ gemini_pc = "returned" =>
          gemini_result = "text" /\ api_calls[attempt] = "text"
    /\ gemini_pc = "raised" =>
          /\ gemini_result = "RuntimeError"
          /\ \/ attempt > 0 /\ api_calls[attempt] = "other"
             \/ attempt = max_retries /\ RateLimitedAttempts = 1..max_retries
    /\ Len(sleeps) = Cardinality({i \in RateLimitedAttempts : i < max_retries})
    /\ DoublingSleeps

\* the third and last attempt came after two sleeps and was rate limited
\* as well: RuntimeError is raised without a third sleep
C34_Witness ==
    /\ gemini_pc = "raised"
    /\ max_retries = 3
    /\ attempt = 3
    /\ RateLimitedAttempts = {1, 2, 3}
    /\ Len(sleeps) = 2
    /\ sleeps[2].retry_delay = 2 * sleeps[1].retry_delay

====
